---- MODULE Spec2Model ----
(***************************************************************************)
(* The incremental artifact-traceability graph of keydev (HistoryGraph,    *)
(* src/src/graph.py): a sliding window of change sets kept as a multi-kind *)
(* graph, the distance-limited reachability search and the score           *)
(* dictionaries derived from it, with the cache that memoizes them.        *)
(*                                                                         *)
(* Dates are day numbers (day 1 is the first day of the data set).  Node   *)
(* keys are strings; developers, change sets, files and issues use         *)
(* disjoint key sets.  A networkx graph is kept with the insertion order   *)
(* of its node dictionary and of every adjacency dictionary, because the   *)
(* depth-first search iterates them in that order.                         *)
(***************************************************************************)
EXTENDS Integers, Sequences, FiniteSets, TLC

\* ---------------------------------------------------------------- parameters
WindowSize == 2
DistanceLimit == 4
NumFilesLimit == 1
ThresholdNum == 1
ThresholdDen == 2

MaxDays == 4

Developers == {"d1", "d2"}
Paths == {"f1", "f2"}
IssueIds == {"i1"}
HashNames ==
    <<<<"c1", "c1b", "c1c">>, <<"c2", "c2b", "c2c">>, <<"c3", "c3b", "c3c">>,
      <<"c4", "c4b", "c4c">>, <<"c5", "c5b", "c5c">>, <<"c6", "c6b", "c6c">>,
      <<"c7", "c7b", "c7c">>, <<"c8", "c8b", "c8c">>>>

\* the developers of the larger team, and those whose replacement is asked for
Team == {"d1", "d2", "d3", "d4", "d5", "d6"}
Leaving == {"d1", "d3", "d5"}

NoDate == 0

\* ---------------------------------------------------------------- sequences
Range(s) == {s[i] : i \in DOMAIN s}

AppendNew(s, x) == IF x \in Range(s) THEN s ELSE Append(s, x)

RECURSIVE Dedupe(_)
Dedupe(s) ==
    IF s = <<>> THEN <<>>
    ELSE AppendNew(Dedupe(SubSeq(s, 1, Len(s) - 1)), s[Len(s)])

RECURSIVE Concat(_)
Concat(ss) == IF ss = <<>> THEN <<>> ELSE Head(ss) \o Concat(Tail(ss))

\* e, with x evaluated first: keeps the evaluation of a long chain of graph
\* updates shallow
Strict(x, e) == IF x = x THEN e ELSE e

SetMax(S) == CHOOSE x \in S : \A y \in S : y <= x

\* ---------------------------------------------------------------- networkx
EmptyGraph ==
    [node |-> <<>>,
     kind |-> [n \in {} |-> ""],
     adj |-> [n \in {} |-> <<>>],
     edata |-> [e \in {} |-> [date |-> NoDate, kind |-> ""]]]

NodeSet(G) == Range(G.node)

AddNode(G, n, k) ==
    [node |-> AppendNew(G.node, n),
     kind |-> (n :> k) @@ G.kind,
     adj |-> G.adj @@ (n :> <<>>),
     edata |-> G.edata]

RECURSIVE AddNodesFrom(_, _, _)
AddNodesFrom(G, ns, k) ==
    IF ns = <<>> THEN G ELSE AddNodesFrom(AddNode(G, Head(ns), k), Tail(ns), k)

AddEdge(G, u, v, date, k) ==
    [node |-> G.node,
     kind |-> G.kind,
     adj |-> [G.adj EXCEPT ![u] = AppendNew(@, v), ![v] = AppendNew(@, u)],
     edata |-> ({u, v} :> [date |-> date, kind |-> k]) @@ G.edata]

RECURSIVE AddEdgesFrom(_, _, _, _, _)
AddEdgesFrom(G, u, vs, date, k) ==
    IF vs = <<>> THEN G
    ELSE AddEdgesFrom(AddEdge(G, u, Head(vs), date, k), u, Tail(vs), date, k)

RemoveNodesFrom(G, S) ==
    LET keep == NodeSet(G) \ S IN
    [node |-> SelectSeq(G.node, LAMBDA x : x \notin S),
     kind |-> [x \in keep |-> G.kind[x]],
     adj |-> [x \in keep |-> SelectSeq(G.adj[x], LAMBDA y : y \notin S)],
     edata |-> [e \in {d \in DOMAIN G.edata : d \cap S = {}} |-> G.edata[e]]]

Isolates(G) == {n \in NodeSet(G) : G.adj[n] = <<>>}

\* G.edges: every edge once, by node order, then by adjacency order
EdgesOf(G) ==
    LET Before(i) == {G.node[j] : j \in 1..(i - 1)}
        From(i) == LET n == G.node[i]
                       nb == SelectSeq(G.adj[n], LAMBDA y : y \notin Before(i))
                   IN [j \in 1..Len(nb) |-> <<n, nb[j]>>]
    IN Concat([i \in 1..Len(G.node) |-> From(i)])

RECURSIVE RelabelEdges(_, _, _, _)
RelabelEdges(H, G, es, mapping) ==
    IF es = <<>> THEN H
    ELSE LET e == Head(es)
             Map(n) == IF n \in DOMAIN mapping THEN mapping[n] ELSE n
             d == G.edata[{e[1], e[2]}]
         IN RelabelEdges(AddEdge(H, Map(e[1]), Map(e[2]), d.date, d.kind),
                         G, Tail(es), mapping)

\* nx.relabel_nodes(G, mapping), copy=True
RelabelNodes(G, mapping) ==
    LET Map(n) == IF n \in DOMAIN mapping THEN mapping[n] ELSE n
        nodes == Dedupe([i \in 1..Len(G.node) |-> Map(G.node[i])])
        Last(x) == G.node[SetMax({i \in 1..Len(G.node) : Map(G.node[i]) = x})]
        H == [node |-> nodes,
              kind |-> [x \in Range(nodes) |-> G.kind[Last(x)]],
              adj |-> [x \in Range(nodes) |-> <<>>],
              edata |-> [e \in {} |-> [date |-> NoDate, kind |-> ""]]]
    IN RelabelEdges(H, G, EdgesOf(G), mapping)

\* ---------------------------------------------------------------- data set
\* CodeChange: change_type, file_path and, for a RENAME, old_file_path
Add(p) == [change_type |-> "ADD", file_path |-> p, old_file_path |-> ""]
Modify(p) == [change_type |-> "MODIFY", file_path |-> p, old_file_path |-> ""]
Delete(p) == [change_type |-> "DELETE", file_path |-> p, old_file_path |-> ""]
Rename(o, p) == [change_type |-> "RENAME", file_path |-> p, old_file_path |-> o]

OtherPath(p) == CHOOSE q \in Paths : q # p

Structural == {Delete(p) : p \in Paths} \cup {Rename(OtherPath(p), p) : p \in Paths}

\* code changes of a commit: nothing; one change; an addition or modification
\* listed before a deletion or a rename; more files than NumFilesLimit, alone
\* or with a rename or a deletion
CodeChangeLists ==
    {<<>>}
    \cup {<<Add(p)>> : p \in Paths}
    \cup {<<c>> : c \in Structural}
    \cup {<<Modify(p), c>> : p \in Paths, c \in Structural}
    \cup {<<Add("f1"), Modify("f2")>>,
          <<Add("f1"), Rename("f1", "f2"), Modify("f1")>>,
          <<Modify("f2"), Modify("f1"), Delete("f2")>>}

\* what a commit of the data set carries besides its hash and its date
Shapes ==
    [author : Developers, code_changes : CodeChangeLists,
     issues : {<<>>}, num_files_in_project : {2}]
    \cup [author : Developers, code_changes : {<<>>, <<Modify("f1")>>},
          issues : {<<"i1">>}, num_files_in_project : {0}]

\* commits that share their day with another commit
PairShapes ==
    [author : {"d1"}, code_changes : {<<Modify("f1")>>},
     issues : {<<>>}, num_files_in_project : {1}]
    \cup [author : {"d2"}, code_changes : {<<Rename("f1", "f2")>>},
          issues : {<<>>}, num_files_in_project : {2}]

\* the commits the score dictionaries are exercised on
IssueFix == [author |-> "d1", code_changes |-> <<Modify("f1")>>,
             issues |-> <<"i1">>, num_files_in_project |-> 4]
IssueAdd == [author |-> "d2", code_changes |-> <<Add("f2")>>,
             issues |-> <<"i1">>, num_files_in_project |-> 0]

MetricShapes ==
    [author : Developers, code_changes : {<<Modify("f1")>>},
     issues : {<<>>}, num_files_in_project : {2}]
    \cup [author : {"d2"}, code_changes : {<<Add("f2")>>},
          issues : {<<>>}, num_files_in_project : {2}]
    \cup {IssueFix, IssueAdd, [IssueAdd EXCEPT !.code_changes = <<>>]}

\* the commits of the larger team: a modification, with or without the issue
\* it fixes, a deletion and a commit that changes no file
Plain(d, p) == [author |-> d, code_changes |-> <<Modify(p)>>,
                issues |-> <<>>, num_files_in_project |-> 2]
Fix(d, p) == [author |-> d, code_changes |-> <<Modify(p)>>,
              issues |-> <<"i1">>, num_files_in_project |-> 2]
Drop(d, p) == [author |-> d, code_changes |-> <<Delete(p)>>,
               issues |-> <<>>, num_files_in_project |-> 4]

Merge(d) == [author |-> d, code_changes |-> <<>>,
             issues |-> <<>>, num_files_in_project |-> 2]

TeamTriples ==
    {<<Plain("d3", "f2"), Fix("d1", "f1"), Fix("d2", "f1")>>,
     <<Plain("d4", "f1"), Merge("d5"),
       [Fix("d6", "f2") EXCEPT !.num_files_in_project = 3]>>,
     <<Plain("d4", "f1"), Plain("d6", "f1"), Drop("d5", "f2")>>}

\* a commit that changes no file and closes an issue
Close(d) == [author |-> d, code_changes |-> <<>>,
             issues |-> <<"i1">>, num_files_in_project |-> 2]

\* a data set: the commits that have a day to themselves, the pairs and the
\* triples of commits that share a day
WindowData == [single |-> Shapes, pairs |-> PairShapes \X PairShapes, triples |-> {}]
MetricData == [single |-> MetricShapes,
               pairs |-> {<<IssueFix, [IssueAdd EXCEPT !.num_files_in_project = 2]>>,
                          <<IssueAdd, IssueFix>>},
               triples |-> {}]
UntilData == [single |-> {Plain("d1", "f1"), Fix("d2", "f2"), Drop("d2", "f1")},
              pairs |-> {<<Fix("d1", "f1"), Plain("d2", "f2")>>},
              triples |-> {}]
TeamData == [single |-> {Plain("d1", "f2"), Drop("d2", "f1")},
             pairs |-> {<<Plain("d4", "f1"), Fix("d5", "f2")>>},
             triples |-> TeamTriples]

ConnectorData == [single |-> {Plain("d1", "f1"), Close("d4")},
                  pairs |-> {<<Fix("d3", "f2"), Close("d4")>>,
                             <<Plain("d3", "f2"), Merge("d5")>>},
                  triples |-> {<<Plain("d1", "f1"), Plain("d2", "f1"), Plain("d2", "f2")>>,
                               <<Plain("d2", "f2"), Fix("d3", "f2"), Plain("d5", "f2")>>}]

ChangeSet(shape, day, i) ==
    [commit_hash |-> HashNames[day][i], author |-> shape.author, date |-> day,
     code_changes |-> shape.code_changes, issues |-> shape.issues,
     num_files_in_project |-> shape.num_files_in_project]

\* the change sets of one calendar day, in chronological order
DayLists(data, day) ==
    {<<>>}
    \cup {<<ChangeSet(sh, day, 1)>> : sh \in data.single}
    \cup {<<ChangeSet(p[1], day, 1), ChangeSet(p[2], day, 2)>> : p \in data.pairs}
    \cup {<<ChangeSet(t[1], day, 1), ChangeSet(t[2], day, 2), ChangeSet(t[3], day, 3)>> :
              t \in data.triples}

\* ---------------------------------------------------------------- state
VARIABLES
    window,         \* DataManager: the change sets of each included day
    lastIncluded,   \* DataManager: last included date
    noMoreDays,     \* DataManager: the last included date is the data set's last
    G,              \* HistoryGraph._G
    numberOfFiles,  \* HistoryGraph._number_of_files_in_project
    cache,          \* HistoryGraph.cache
    ret,            \* the last constructor or advance call and what it returned
    locals          \* the local variables of the function that drives the graph

vars == <<window, lastIncluded, noMoreDays, G, numberOfFiles, cache, ret, locals>>

FirstIncluded == lastIncluded - WindowSize + 1

EmptyCache == [k \in {} |-> <<>>]

\* ---------------------------------------------------------------- graph updates
FilesAddModify(cs) ==
    LET s == SelectSeq(cs.code_changes,
                       LAMBDA cc : cc.change_type \notin {"DELETE", "RENAME"})
    IN [i \in 1..Len(s) |-> s[i].file_path]

FilesDelete(cs) ==
    LET s == SelectSeq(cs.code_changes, LAMBDA cc : cc.change_type = "DELETE")
    IN [i \in 1..Len(s) |-> s[i].file_path]

FilesRenameDict(cs) ==
    LET s == SelectSeq(cs.code_changes, LAMBDA cc : cc.change_type = "RENAME")
        Last(o) == SetMax({i \in 1..Len(s) : s[i].old_file_path = o})
    IN [o \in {s[i].old_file_path : i \in 1..Len(s)} |-> s[Last(o)].file_path]

\* the relabelled copy is dropped
RenameNodes_Unassigned(g, mapping) == g

RenameNodes(g, mapping) ==
    IF DOMAIN mapping = {} THEN g ELSE RelabelNodes(g, mapping)

\* the nodes left without an edge are kept
RemoveNodes_KeepIsolates(g, nodes) ==
    IF nodes = <<>> THEN g ELSE RemoveNodesFrom(g, Range(nodes))

RemoveNodes(g, nodes) ==
    IF nodes = <<>> THEN g
    ELSE LET g1 == RemoveNodesFrom(g, Range(nodes))
         IN RemoveNodesFrom(g1, Isolates(g1))

\* no change set is taken for large
IsLarge_Never(cs) == FALSE

IsLarge(cs) == Len(FilesAddModify(cs)) > NumFilesLimit

\* the author is joined to the files of the change set as well
InsertChangeSet_JoinsAuthor(g, cs) ==
    LET g1 == AddNode(g, cs.commit_hash, "ChangeSet")
        g2 == AddNode(g1, cs.author, "Developer")
        g3 == AddEdge(g2, cs.author, cs.commit_hash, NoDate, "commit")
        g4 == AddNodesFrom(g3, FilesAddModify(cs), "File")
        g5 == AddEdgesFrom(g4, cs.commit_hash, FilesAddModify(cs), cs.date, "include")
        g6 == AddEdgesFrom(g5, cs.author, FilesAddModify(cs), cs.date, "include")
        g7 == AddNodesFrom(g6, cs.issues, "Issue")
    IN AddEdgesFrom(g7, cs.commit_hash, cs.issues, cs.date, "link")

InsertChangeSet(g, cs) ==
    LET g1 == AddNode(g, cs.commit_hash, "ChangeSet")
        g2 == AddNode(g1, cs.author, "Developer")
        g3 == AddEdge(g2, cs.author, cs.commit_hash, NoDate, "commit")
        g4 == AddNodesFrom(g3, FilesAddModify(cs), "File")
        g5 == AddEdgesFrom(g4, cs.commit_hash, FilesAddModify(cs), cs.date, "include")
        g6 == AddNodesFrom(g5, cs.issues, "Issue")
    IN AddEdgesFrom(g6, cs.commit_hash, cs.issues, cs.date, "link")

Event(op, cs) == [op |-> op, cs |-> cs.commit_hash]

\* the nodes of the deleted files are left in the graph
AddChangeSet_KeepsDeleted(st, cs) ==
    LET g1 == RenameNodes(st.G, FilesRenameDict(cs))
        o1 == IF DOMAIN FilesRenameDict(cs) = {} THEN st.ops
              ELSE Append(st.ops, Event("rename", cs))
    IN IF IsLarge(cs) THEN [G |-> g1, ops |-> o1]
       ELSE [G |-> InsertChangeSet(g1, cs), ops |-> Append(o1, Event("add", cs))]

\* a large change set is skipped before its renames and deletions
AddChangeSet_SkipsLargeWhole(st, cs) ==
    LET g1 == RenameNodes(st.G, FilesRenameDict(cs))
        o1 == IF DOMAIN FilesRenameDict(cs) = {} THEN st.ops
              ELSE Append(st.ops, Event("rename", cs))
        g2 == RemoveNodes(g1, FilesDelete(cs))
        o2 == IF FilesDelete(cs) = <<>> THEN o1 ELSE Append(o1, Event("delete", cs))
    IN IF IsLarge(cs) THEN st
       ELSE [G |-> InsertChangeSet(g2, cs), ops |-> Append(o2, Event("add", cs))]

\* one iteration of the loop of _add_change_sets; st is the graph together
\* with the list of the mutations made so far
AddChangeSet(st, cs) ==
    LET g1 == RenameNodes(st.G, FilesRenameDict(cs))
        o1 == IF DOMAIN FilesRenameDict(cs) = {} THEN st.ops
              ELSE Append(st.ops, Event("rename", cs))
        g2 == RemoveNodes(g1, FilesDelete(cs))
        o2 == IF FilesDelete(cs) = <<>> THEN o1 ELSE Append(o1, Event("delete", cs))
    IN IF IsLarge(cs) THEN [G |-> g2, ops |-> o2]
       ELSE [G |-> InsertChangeSet(g2, cs), ops |-> Append(o2, Event("add", cs))]

RECURSIVE AddChangeSets(_, _)
AddChangeSets(st, change_sets) ==
    IF change_sets = <<>> THEN st
    ELSE LET next == AddChangeSet(st, Head(change_sets))
         IN Strict(next, AddChangeSets(next, Tail(change_sets)))

\* the change sets that leave the window stay in the graph
RemoveChangeSets_Skip(st, change_sets) == st

\* only the first change set of the leaving day is removed
RemoveChangeSets_OnlyFirst(st, change_sets) ==
    [G |-> RemoveNodes(st.G, [i \in 1..Len(SubSeq(change_sets, 1, 1)) |->
                                 change_sets[i].commit_hash]),
     ops |-> st.ops \o [i \in 1..Len(change_sets) |-> Event("remove", change_sets[i])]]

RemoveChangeSets(st, change_sets) ==
    [G |-> RemoveNodes(st.G, [i \in 1..Len(change_sets) |-> change_sets[i].commit_hash]),
     ops |-> st.ops \o [i \in 1..Len(change_sets) |-> Event("remove", change_sets[i])]]

InitializeGraph(change_sets_add) ==
    AddChangeSets([G |-> EmptyGraph, ops |-> <<>>], change_sets_add)

\* the incoming change sets are applied before the leaving ones are removed
SlideGraph_AddFirst(g, change_sets_add, change_sets_remove) ==
    RemoveChangeSets(AddChangeSets([G |-> g, ops |-> <<>>], change_sets_add),
                     change_sets_remove)

\* the graph updates of forward_graph_one_day, in the order it makes them
SlideGraph(g, change_sets_add, change_sets_remove) ==
    AddChangeSets(RemoveChangeSets([G |-> g, ops |-> <<>>], change_sets_remove),
                  change_sets_add)

\* ---------------------------------------------------------------- DataManager
\* get_initial_window: the change sets of the first WindowSize days; the
\* first day of a data set is the day of its first change set
RECURSIVE FirstDays(_, _)
FirstDays(data, d) ==
    IF d = 0 THEN {<<>>}
    ELSE {Append(w, l) : w \in FirstDays(data, d - 1), l \in DayLists(data, d)}

InitialWindows(data) == {w \in FirstDays(data, WindowSize) : w[1] # <<>>}

\* forward_one_day raises SlidingNotPossible: no further day in the data set,
\* whose last day is the day of its last change set
SlidingNotPossible ==
    /\ \/ noMoreDays
       \/ window[WindowSize] # <<>>
    /\ noMoreDays' = TRUE
    /\ UNCHANGED <<window, lastIncluded>>

\* the window jumps over a day
ForwardOneDay_SkipsDay(added, removed) ==
    /\ ~noMoreDays
    /\ lastIncluded < MaxDays - 1
    /\ removed = window[1]
    /\ window' = Append(Tail(window), added)
    /\ lastIncluded' = lastIncluded + 2
    /\ UNCHANGED noMoreDays

\* forward_one_day returns (added, removed)
ForwardOneDay(added, removed) ==
    /\ ~noMoreDays
    /\ lastIncluded < MaxDays
    /\ lastIncluded + 1 = MaxDays => added # <<>>
    /\ removed = window[1]
    /\ window' = Append(Tail(window), added)
    /\ lastIncluded' = lastIncluded + 1
    /\ UNCHANGED noMoreDays

\* ---------------------------------------------------------------- HistoryGraph
Returned(op, val, cleared) == [op |-> op, val |-> val, cleared |-> cleared]

Construct(data) ==
    \E w \in InitialWindows(data) :
        LET change_sets_add == Concat(w) IN
        /\ window = w
        /\ lastIncluded = WindowSize
        /\ noMoreDays = FALSE
        /\ numberOfFiles =
              change_sets_add[Len(change_sets_add)].num_files_in_project
        /\ G = InitializeGraph(change_sets_add).G
        /\ cache = EmptyCache
        /\ ret = Returned("HistoryGraph", TRUE, FALSE)

\* the cache is dropped before the window is asked to slide
SlidingFails_ClearsCache ==
    /\ SlidingNotPossible
    /\ ret' = Returned("forward_graph_one_day", FALSE, FALSE)
    /\ cache' = EmptyCache
    /\ UNCHANGED <<G, numberOfFiles>>

SlidingFails ==
    /\ SlidingNotPossible
    /\ ret' = Returned("forward_graph_one_day", FALSE, FALSE)
    /\ UNCHANGED <<G, numberOfFiles, cache>>

\* the file counter is the number of File nodes of the graph
Slide_CountsFileNodes(data) ==
    \E change_sets_add \in DayLists(data, lastIncluded + 1) :
        /\ ForwardOneDay(change_sets_add, window[1])
        /\ G' = SlideGraph(G, change_sets_add, window[1]).G
        /\ numberOfFiles' = Cardinality({n \in NodeSet(G') : G'.kind[n] = "File"})
        /\ cache' = EmptyCache
        /\ ret' = Returned("forward_graph_one_day", TRUE, cache # EmptyCache)

\* the cache outlives the advance
Slide_KeepsCache(data) ==
    \E change_sets_add \in DayLists(data, lastIncluded + 1) :
        /\ ForwardOneDay(change_sets_add, window[1])
        /\ G' = SlideGraph(G, change_sets_add, window[1]).G
        /\ numberOfFiles' =
              IF change_sets_add # <<>>
              THEN change_sets_add[Len(change_sets_add)].num_files_in_project
              ELSE numberOfFiles
        /\ cache' = cache
        /\ ret' = Returned("forward_graph_one_day", TRUE, cache # EmptyCache)

Slide(data) ==
    \E change_sets_add \in DayLists(data, lastIncluded + 1) :
        /\ ForwardOneDay(change_sets_add, window[1])
        /\ G' = SlideGraph(G, change_sets_add, window[1]).G
        /\ numberOfFiles' =
              IF change_sets_add # <<>>
              THEN change_sets_add[Len(change_sets_add)].num_files_in_project
              ELSE numberOfFiles
        /\ cache' = EmptyCache
        /\ ret' = Returned("forward_graph_one_day", TRUE, cache # EmptyCache)

ForwardGraphOneDay(data) == (SlidingFails \/ Slide(data)) /\ UNCHANGED locals

\* the object as it stands: the fields forward_until reads and writes
Now ==
    [window |-> window, lastIncluded |-> lastIncluded, noMoreDays |-> noMoreDays,
     G |-> G, numberOfFiles |-> numberOfFiles, cache |-> cache]

\* the object after forward_graph_one_day has slid the window over added
Slid(st, added) ==
    [window |-> Append(Tail(st.window), added),
     lastIncluded |-> st.lastIncluded + 1,
     noMoreDays |-> st.noMoreDays,
     G |-> SlideGraph(st.G, added, st.window[1]).G,
     numberOfFiles |-> IF added # <<>> THEN added[Len(added)].num_files_in_project
                       ELSE st.numberOfFiles,
     cache |-> EmptyCache]

\* forward_graph_one_day called inside forward_until: what it may return,
\* with the object it leaves
ForwardedOneDay(st, data) ==
    {[st |-> [st EXCEPT !.noMoreDays = TRUE], val |-> FALSE] :
        x \in {y \in {0} : st.noMoreDays \/ st.window[WindowSize] # <<>>}}
    \cup {[st |-> Slid(st, added), val |-> TRUE] :
             added \in {a \in DayLists(data, st.lastIncluded + 1) :
                           /\ ~st.noMoreDays
                           /\ st.lastIncluded < MaxDays
                           /\ st.lastIncluded + 1 = MaxDays => a # <<>>}}

\* the loop stops one day after the target
RECURSIVE ForwardedUntil_Past(_, _, _)
ForwardedUntil_Past(st, data, target_date) ==
    IF st.lastIncluded > target_date THEN {[st |-> st, val |-> TRUE]}
    ELSE UNION {IF o.val THEN ForwardedUntil_Past(o.st, data, target_date)
                ELSE {[st |-> o.st, val |-> FALSE]} :
                    o \in ForwardedOneDay(st, data)}

\* the loop of forward_until; dates are days, the last included date being the
\* end of its day like max_of_day(target_date)
RECURSIVE ForwardedUntil(_, _, _)
ForwardedUntil(st, data, target_date) ==
    IF st.lastIncluded >= target_date THEN {[st |-> st, val |-> TRUE]}
    ELSE UNION {IF o.val THEN ForwardedUntil(o.st, data, target_date)
                ELSE {[st |-> o.st, val |-> FALSE]} :
                    o \in ForwardedOneDay(st, data)}

ForwardUntil(data) ==
    \E target_date \in 1..(MaxDays + 1) :
    \E o \in ForwardedUntil(Now, data, target_date) :
        /\ window' = o.st.window
        /\ lastIncluded' = o.st.lastIncluded
        /\ noMoreDays' = o.st.noMoreDays
        /\ G' = o.st.G
        /\ numberOfFiles' = o.st.numberOfFiles
        /\ cache' = o.st.cache
        /\ ret' = [op |-> "forward_until", val |-> o.val, cleared |-> FALSE,
                   target_date |-> target_date]
        /\ UNCHANGED locals

\* no function drives the graph: the calls come one by one
NoLocals == <<>>

Init == Construct(WindowData) /\ locals = NoLocals

Next == ForwardGraphOneDay(WindowData)

Spec == Init /\ [][Next]_vars

\* ---------------------------------------------------------------- accessors
\* An accessor is an operator of the cache and the graph that yields the value
\* it returns, the cache it leaves and its outcome: "ok", "None" when it
\* returns None, or the name of the exception it raises.
Ok(v, c) == [val |-> v, cache |-> c, outcome |-> "ok"]
None(c) == [val |-> <<>>, cache |-> c, outcome |-> "None"]
Raise(e, c) == [val |-> <<>>, cache |-> c, outcome |-> e]

\* what follows a call that returned; an exception goes on to the caller
Try(r, Then(_)) == IF r.outcome # "ok" THEN r ELSE Then(r)

Key(name) == <<"", name>>
Put(c, k, v) == (k :> v) @@ c

\* self.cache[k] = v; return v
Store(c, k, v) == Ok(v, Put(c, k, v))

\* dictionaries keep insertion order: sequences of key/value entries
Entry(k, v) == [k |-> k, v |-> v]
Keys(d) == [i \in 1..Len(d) |-> d[i].k]
HasKey(d, k) == k \in Range(Keys(d))
Get(d, k) == d[CHOOSE i \in 1..Len(d) : d[i].k = k].v
AppendTo(d, k, x) ==
    IF HasKey(d, k)
    THEN [i \in 1..Len(d) |-> IF d[i].k = k THEN Entry(k, Append(d[i].v, x)) ELSE d[i]]
    ELSE Append(d, Entry(k, <<x>>))

\* scores are fractions
Frac(n, d) == [n |-> n, d |-> d]
Greater(a, b) == a.n * b.d > b.n * a.d
AtLeast(a, b) == a.n * b.d >= b.n * a.d

FilterNodesByKind(g, kind) == SelectSeq(g.node, LAMBDA n : g.kind[n] = kind)

GetDevelopers(g) == FilterNodesByKind(g, "Developer")

GetFiles(g) == FilterNodesByKind(g, "File")

GetNodeKinds(c, g) ==
    IF Key("node_kinds") \in DOMAIN c THEN Ok(c[Key("node_kinds")], c)
    ELSE Ok(g.kind, Put(c, Key("node_kinds"), g.kind))

\* the days are counted back from the last included date
WhichDay_FromLast(edge_date) == (lastIncluded - edge_date) + 1

WhichDay(edge_date) == (edge_date - FirstIncluded) + 1

\* distances are kept as multiples of 1/DistanceScale
RECURSIVE Factorial(_)
Factorial(n) == IF n <= 1 THEN 1 ELSE n * Factorial(n - 1)

DistanceScale == Factorial(WindowSize)

CalculateDistance(edge_date) ==
    IF edge_date = NoDate THEN 0
    ELSE (DistanceScale * WindowSize) \div WhichDay(edge_date)

Frame(node, distance) == [node |-> node, distance |-> distance, next |-> 1]

\* the branch is given up once its distance is at the limit already
WithinLimit_Strict(distance_now) == distance_now < DistanceLimit * DistanceScale

WithinLimit(distance_now) == ~(distance_now > DistanceLimit * DistanceScale)

\* the search keeps no record of the nodes it pushed
RECURSIVE Search_Revisits(_, _, _, _, _, _)
Search_Revisits(g, node_kinds, stack, visited, reachable_files, visits) ==
    IF stack = <<>>
    THEN [files |-> reachable_files, visits |-> visits, outcome |-> "ok"]
    ELSE LET top == stack[Len(stack)] IN
         IF top.next > Len(g.adj[top.node])
         THEN Search_Revisits(g, node_kinds, SubSeq(stack, 1, Len(stack) - 1), visited,
                              reachable_files, visits)
         ELSE LET child == g.adj[top.node][top.next]
                  rest == [stack EXCEPT ![Len(stack)].next = top.next + 1]
                  distance_now == top.distance
                      + CalculateDistance(g.edata[{top.node, child}].date)
              IN IF child \in visited \/ distance_now > DistanceLimit * DistanceScale
                    \/ node_kinds[child] = "Developer"
                 THEN Search_Revisits(g, node_kinds, rest, visited, reachable_files, visits)
                 ELSE Search_Revisits(g, node_kinds,
                                      Append(rest, Frame(child, distance_now)), visited,
                                      IF node_kinds[child] = "File"
                                      THEN Append(reachable_files, child)
                                      ELSE reachable_files,
                                      Append(visits, [node |-> child, parent |-> top.node,
                                                      distance |-> distance_now]))

\* the loop of find_reachable_files; next is the position of the iterator
\* over the neighbours of a stacked node; visits lists the nodes pushed, with
\* the node they were reached from and the distance at which they were reached
RECURSIVE Search(_, _, _, _, _, _)
Search(g, node_kinds, stack, visited, reachable_files, visits) ==
    IF stack = <<>>
    THEN [files |-> reachable_files, visits |-> visits, outcome |-> "ok"]
    ELSE LET top == stack[Len(stack)] IN
         IF top.next > Len(g.adj[top.node])
         THEN Search(g, node_kinds, SubSeq(stack, 1, Len(stack) - 1), visited,
                     reachable_files, visits)
         ELSE LET child == g.adj[top.node][top.next]
                  rest == [stack EXCEPT ![Len(stack)].next = top.next + 1]
                  distance_now == top.distance
                      + CalculateDistance(g.edata[{top.node, child}].date)
              IN IF child \in visited
                 THEN Search(g, node_kinds, rest, visited, reachable_files, visits)
                 ELSE IF ~WithinLimit(distance_now)
                 THEN Search(g, node_kinds, rest, visited, reachable_files, visits)
                 ELSE IF child \notin DOMAIN node_kinds
                 THEN [files |-> <<>>, visits |-> visits, outcome |-> "KeyError"]
                 ELSE IF node_kinds[child] = "Developer"
                 THEN Search(g, node_kinds, rest, visited, reachable_files, visits)
                 ELSE Search(g, node_kinds, Append(rest, Frame(child, distance_now)),
                             visited \cup {child},
                             IF node_kinds[child] = "File"
                             THEN Append(reachable_files, child)
                             ELSE reachable_files,
                             Append(visits, [node |-> child, parent |-> top.node,
                                             distance |-> distance_now]))

SearchFrom(g, node_kinds, developer) ==
    Search(g, node_kinds, <<Frame(developer, 0)>>, {developer}, <<>>, <<>>)

\* the list the search hands back, or the exception it ended with
Searched(found, c) ==
    IF found.outcome # "ok" THEN Raise(found.outcome, c) ELSE Ok(found.files, c)

\* a developer without a node reaches no file
FindReachableFiles_AbsentEmpty(c, g, developer) ==
    IF <<developer, "reachable_files">> \in DOMAIN c
    THEN Ok(c[<<developer, "reachable_files">>], c)
    ELSE Try(GetNodeKinds(c, g), LAMBDA node_kinds :
             IF developer \notin NodeSet(g) THEN Ok(<<>>, node_kinds.cache)
             ELSE Try(Searched(SearchFrom(g, node_kinds.val, developer), node_kinds.cache),
                      LAMBDA found :
                          Store(found.cache, <<developer, "reachable_files">>, found.val)))

\* the result is memoized under a key that leaves the developer out
FindReachableFiles_SharedKey(c, g, developer) ==
    IF Key("reachable_files") \in DOMAIN c
    THEN Ok(c[Key("reachable_files")], c)
    ELSE Try(GetNodeKinds(c, g), LAMBDA node_kinds :
             IF developer \notin NodeSet(g) THEN Raise("KeyError", node_kinds.cache)
             ELSE Try(Searched(SearchFrom(g, node_kinds.val, developer), node_kinds.cache),
                      LAMBDA found :
                          Store(found.cache, Key("reachable_files"), found.val)))

FindReachableFiles(c, g, developer) ==
    IF <<developer, "reachable_files">> \in DOMAIN c
    THEN Ok(c[<<developer, "reachable_files">>], c)
    ELSE Try(GetNodeKinds(c, g), LAMBDA node_kinds :
             IF developer \notin NodeSet(g) THEN Raise("KeyError", node_kinds.cache)
             ELSE Try(Searched(SearchFrom(g, node_kinds.val, developer), node_kinds.cache),
                      LAMBDA found :
                          Store(found.cache, <<developer, "reachable_files">>, found.val)))

RECURSIVE ReachableFilesOfAll(_, _, _, _)
ReachableFilesOfAll(c, g, devs, dev_to_reachable_files) ==
    IF devs = <<>> THEN Ok(dev_to_reachable_files, c)
    ELSE Try(FindReachableFiles(c, g, Head(devs)), LAMBDA r :
             ReachableFilesOfAll(r.cache, g, Tail(devs),
                 Append(dev_to_reachable_files, Entry(Head(devs), r.val))))

GetDevToReachableFiles(c, g) ==
    IF Key("dev_to_reachable_files") \in DOMAIN c
    THEN Ok(c[Key("dev_to_reachable_files")], c)
    ELSE Try(ReachableFilesOfAll(c, g, GetDevelopers(g), <<>>), LAMBDA r :
             Store(r.cache, Key("dev_to_reachable_files"), r.val))

RECURSIVE InvertDict(_, _)
InvertDict(dev_to_files, file_to_devs) ==
    IF dev_to_files = <<>> THEN file_to_devs
    ELSE LET dev == Head(dev_to_files).k
             files == Head(dev_to_files).v
         IN IF files = <<>> THEN InvertDict(Tail(dev_to_files), file_to_devs)
            ELSE InvertDict(<<Entry(dev, Tail(files))>> \o Tail(dev_to_files),
                            AppendTo(file_to_devs, Head(files), dev))

GetFileToDevs(c, g) ==
    IF Key("file_to_devs") \in DOMAIN c THEN Ok(c[Key("file_to_devs")], c)
    ELSE Try(GetDevToReachableFiles(c, g), LAMBDA r :
             Store(r.cache, Key("file_to_devs"), InvertDict(r.val, <<>>)))

\* a file counts as rare whenever some developer reaches it
IsRare_Any(devs) == Len(devs) >= 1

IsRare(devs) == Len(devs) = 1

RECURSIVE RareFiles(_, _)
RareFiles(file_to_devs, dev_to_rarefiles) ==
    IF file_to_devs = <<>> THEN dev_to_rarefiles
    ELSE LET f == Head(file_to_devs).k
             devs == Head(file_to_devs).v
         IN RareFiles(Tail(file_to_devs),
                      IF IsRare(devs) THEN AppendTo(dev_to_rarefiles, devs[1], f)
                      ELSE dev_to_rarefiles)

GetDevToRareFiles(c, g) ==
    IF Key("dev_to_rare_files") \in DOMAIN c THEN Ok(c[Key("dev_to_rare_files")], c)
    ELSE Try(GetFileToDevs(c, g), LAMBDA r :
             Store(r.cache, Key("dev_to_rarefiles"), RareFiles(r.val, <<>>)))

RECURSIVE SumLen(_)
SumLen(d) == IF d = <<>> THEN 0 ELSE Len(Head(d).v) + SumLen(Tail(d))

GetNumRareFiles(c, g) ==
    Try(GetDevToRareFiles(c, g), LAMBDA r : Ok(SumLen(r.val), r.cache))

GetNumReachableFiles(c, g) ==
    Try(GetDevToReachableFiles(c, g), LAMBDA r :
        Ok(Cardinality(UNION {Range(r.val[i].v) : i \in 1..Len(r.val)}), r.cache))

\* the dictionary is left in the order of its insertions
SortDict_Unsorted(d) == d

\* sorted(d, key=lambda x: d[x], reverse=True): descending and stable
RECURSIVE SortDict(_)
SortDict(d) ==
    IF d = <<>> THEN <<>>
    ELSE LET rest == SortDict(Tail(d))
             ahead == Cardinality({i \in 1..Len(rest) : Greater(rest[i].v, Head(d).v)})
         IN SubSeq(rest, 1, ahead) \o <<Head(d)>> \o SubSeq(rest, ahead + 1, Len(rest))

\* scores equal to the threshold are dropped as well
SortAndFilter_Strict(d) ==
    SelectSeq(SortDict(d), LAMBDA e : Greater(e.v, Frac(ThresholdNum, ThresholdDen)))

SortAndFilter(d) ==
    SelectSeq(SortDict(d), LAMBDA e : AtLeast(e.v, Frac(ThresholdNum, ThresholdDen)))

\* every list of the dictionary replaced by its length divided by total
Shares(d, total) == [i \in 1..Len(d) |-> Entry(d[i].k, Frac(Len(d[i].v), total))]

GetJacks(c, g, num_all_files) ==
    IF Key("jacks") \in DOMAIN c THEN Ok(c[Key("jacks")], c)
    ELSE Try(GetDevToReachableFiles(c, g), LAMBDA r :
             IF r.val # <<>> /\ num_all_files = 0
             THEN Raise("ZeroDivisionError", r.cache)
             ELSE Store(r.cache, Key("jacks"),
                        SortAndFilter(Shares(r.val, num_all_files))))

GetMavens(c, g) ==
    IF Key("mavens") \in DOMAIN c THEN Ok(c[Key("mavens")], c)
    ELSE Try(GetDevToRareFiles(c, g), LAMBDA dev_to_rare_files :
         Try(GetNumRareFiles(dev_to_rare_files.cache, g), LAMBDA num_rare_files :
             Store(num_rare_files.cache, Key("mavens"),
                   SortAndFilter(Shares(dev_to_rare_files.val, num_rare_files.val)))))

\* the share of the files a last significant developer has to cover: 0.8
ParetoNum == 8
ParetoDen == 10

\* the first developer of the dictionary is returned whatever it covers
LastSignificant_First(c, names, dev_to_files, covered, total) ==
    IF names = <<>> THEN None(c) ELSE Ok(Head(names), c)

\* the loop of find_last_sig_jack and find_last_sig_maven
RECURSIVE LastSignificant(_, _, _, _, _)
LastSignificant(c, names, dev_to_files, covered, total) ==
    IF names = <<>> THEN None(c)
    ELSE LET now == covered \cup Range(Get(dev_to_files, Head(names))) IN
         IF total = 0 THEN Raise("ZeroDivisionError", c)
         ELSE IF Cardinality(now) * ParetoDen >= ParetoNum * total
         THEN Ok(Head(names), c)
         ELSE LastSignificant(c, Tail(names), dev_to_files, now, total)

FindLastSigJack(c, g, num_all_files) ==
    Try(GetDevToReachableFiles(c, g), LAMBDA dev_to_reachable_files :
    Try(GetNumReachableFiles(dev_to_reachable_files.cache, g), LAMBDA num_reachable_files :
    Try(GetJacks(num_reachable_files.cache, g, num_all_files), LAMBDA jacks :
        LastSignificant(jacks.cache, Keys(jacks.val), dev_to_reachable_files.val, {},
                        num_reachable_files.val))))

FindLastSigMaven(c, g) ==
    Try(GetDevToRareFiles(c, g), LAMBDA dev_to_rare_files :
    Try(GetNumRareFiles(dev_to_rare_files.cache, g), LAMBDA num_rare_files :
    Try(GetMavens(num_rare_files.cache, g), LAMBDA mavens :
        LastSignificant(mavens.cache, Keys(mavens.val), dev_to_rare_files.val, {},
                        num_rare_files.val))))

\* every developer has made one commit
GetNumCommits_One(g, developer) == 1

GetNumCommits(g, developer) ==
    Cardinality({i \in 1..Len(g.adj[developer]) :
                    g.edata[{developer, g.adj[developer][i]}].kind = "commit"})

GetTopCommitters(g) ==
    LET devs == GetDevelopers(g) IN
    SortAndFilter([i \in 1..Len(devs) |->
                      Entry(devs[i], Frac(GetNumCommits(g, devs[i]), 1))])

\* the fewest developers whose coverages are tested for their distribution
MinTeam == 3

\* the verdict of the three tests (kstest, shapiro, skew) on the coverages;
\* the tests are library functions of the list and of nothing else
TeamShape(knowledge_list) == <<"balanced or hero", knowledge_list>>

\* the developers that are no jacks are left out of the list
Knowledge_JacksOnly(devs, jacks) == [i \in 1..Len(jacks) |-> jacks[i].v]

\* dev_to_knowledge: jacks.get(dev, 0) for every developer
Knowledge(devs, jacks) ==
    [i \in 1..Len(devs) |->
        IF HasKey(jacks, devs[i]) THEN Get(jacks, devs[i]) ELSE Frac(0, 1)]

BalancedOrHero(c, g, num_all_files) ==
    Try(GetJacks(c, g, num_all_files), LAMBDA jacks :
        IF Len(GetDevelopers(g)) < MinTeam THEN None(jacks.cache)
        ELSE Ok(TeamShape(Knowledge(GetDevelopers(g), jacks.val)), jacks.cache))

\* the fewest other developers for which replacements are computed
MinOtherDevs == 5

\* the developer is compared with every developer, itself included
IntersectionRatios_Everyone(dev_to_files, developer_files, other_devs) ==
    [i \in 1..Len(dev_to_files) |->
        Entry(dev_to_files[i].k,
              Frac(Cardinality(developer_files \cap Range(dev_to_files[i].v)),
                   Cardinality(developer_files)))]

\* the share of the files of developer that each of the others reaches
IntersectionRatios(dev_to_files, developer_files, other_devs) ==
    [i \in 1..Len(other_devs) |->
        Entry(other_devs[i],
              Frac(Cardinality(developer_files \cap Range(Get(dev_to_files, other_devs[i]))),
                   Cardinality(developer_files)))]

\* five other developers are not enough, as the docstring has it
Replacements_MoreThanFive(c, g, developer, dev_to_files, developer_files, other_devs) ==
    IF Cardinality(developer_files) = 0 THEN None(c)
    ELSE IF Len(other_devs) <= MinOtherDevs THEN None(c)
    ELSE Store(c, <<developer, "replacements">>,
               SortAndFilter(IntersectionRatios(dev_to_files, developer_files, other_devs)))

\* the developer is removed from the memoized dictionary the others read
Replacements_RemovesDeveloper(c, g, developer, dev_to_files, developer_files, other_devs) ==
    LET shared == Put(c, Key("dev_to_reachable_files"),
                      SelectSeq(dev_to_files, LAMBDA e : e.k # developer))
    IN IF Cardinality(developer_files) = 0 THEN None(c)
       ELSE IF Len(other_devs) < MinOtherDevs THEN None(shared)
       ELSE Store(shared, <<developer, "replacements">>,
                  SortAndFilter(IntersectionRatios(dev_to_files, developer_files, other_devs)))

Replacements(c, g, developer, dev_to_files, developer_files, other_devs) ==
    IF Cardinality(developer_files) = 0 THEN None(c)
    ELSE IF Len(other_devs) < MinOtherDevs THEN None(c)
    ELSE Store(c, <<developer, "replacements">>,
               SortAndFilter(IntersectionRatios(dev_to_files, developer_files, other_devs)))

FindReplacement(c, g, developer) ==
    IF <<developer, "replacement">> \in DOMAIN c
    THEN Ok(c[<<developer, "replacement">>], c)
    ELSE Try(GetDevToReachableFiles(c, g), LAMBDA dev_to_files :
             IF ~HasKey(dev_to_files.val, developer)
             THEN Raise("AssertionError", dev_to_files.cache)
             ELSE Replacements(dev_to_files.cache, g, developer, dev_to_files.val,
                               Range(Get(dev_to_files.val, developer)),
                               SelectSeq(GetDevelopers(g), LAMBDA d : d # developer)))

\* ---------------------------------------------------------------- developer graph
\* the longest path that joins two developers
Cutoff == 4

\* reciprocals of path lengths are kept as multiples of 1/PathScale
PathScale == 12

\* nx.all_simple_paths(G, source, targets, cutoff), from the nodes visited so
\* far: depth first along the adjacency lists
RECURSIVE AllSimplePathsFrom(_, _, _, _)
AllSimplePathsFrom(g, visited, targets, cutoff) ==
    LET children == SelectSeq(g.adj[visited[Len(visited)]],
                              LAMBDA child : child \notin Range(visited))
        Of(child) ==
            (IF child \in targets THEN <<Append(visited, child)>> ELSE <<>>)
            \o (IF Len(visited) < cutoff
                THEN AllSimplePathsFrom(g, Append(visited, child), targets, cutoff)
                ELSE <<>>)
    IN Concat([i \in 1..Len(children) |-> Of(children[i])])

RECURSIVE PathDistances(_, _)
PathDistances(paths, dev_pair2distances) ==
    IF paths = <<>> THEN dev_pair2distances
    ELSE LET path == Head(paths) IN
         PathDistances(Tail(paths),
             AppendTo(dev_pair2distances, <<path[1], path[Len(path)]>>,
                      Len(path) - 1))

RECURSIVE DevPairToDistances(_, _, _, _)
DevPairToDistances(g, devs, i, dev_pair2distances) ==
    IF i >= Len(devs) THEN dev_pair2distances
    ELSE DevPairToDistances(g, devs, i + 1,
             PathDistances(
                 AllSimplePathsFrom(g, <<devs[i]>>,
                     Range(SubSeq(devs, i + 1, Len(devs))), Cutoff),
                 dev_pair2distances))

RECURSIVE SumOfReciprocals(_)
SumOfReciprocals(distances) ==
    IF distances = <<>> THEN 0
    ELSE (PathScale \div Head(distances)) + SumOfReciprocals(Tail(distances))

\* the distance of a pair is that of its first path
Rsrd_FirstPath(distances) == Frac(Head(distances), 1)

\* 1 / sum(1 / d for d in distances)
Rsrd(distances) == Frac(PathScale, SumOfReciprocals(distances))

CalculateRsrdDistances(g) ==
    LET dev_pair2distances == DevPairToDistances(g, GetDevelopers(g), 1, <<>>)
        summed == SelectSeq(dev_pair2distances,
                            LAMBDA e : SumOfReciprocals(e.v) # 0)
    IN [i \in 1..Len(summed) |-> Entry(summed[i].k, Rsrd(summed[i].v))]

\* devG.add_edges_from(edge_list): the nodes in the order of their first edge
RECURSIVE AddDistanceEdges(_, _)
AddDistanceEdges(devG, edge_list) ==
    IF edge_list = <<>> THEN devG
    ELSE LET dev1 == Head(edge_list).k[1]
             dev2 == Head(edge_list).k[2]
             H == AddNode(AddNode(devG, dev1, ""), dev2, "")
         IN AddDistanceEdges(
                [node |-> H.node,
                 kind |-> H.kind,
                 adj |-> [H.adj EXCEPT ![dev1] = AppendNew(@, dev2),
                                       ![dev2] = AppendNew(@, dev1)],
                 edata |-> ({dev1, dev2} :> [distance |-> Head(edge_list).v])
                           @@ H.edata],
                Tail(edge_list))

EmptyDeveloperGraph ==
    [node |-> <<>>,
     kind |-> [n \in {} |-> ""],
     adj |-> [n \in {} |-> <<>>],
     edata |-> [e \in {} |-> [distance |-> Frac(0, 1)]]]

GetDeveloperGraph(c, g) ==
    IF Key("developer_graph") \in DOMAIN c THEN Ok(c[Key("developer_graph")], c)
    ELSE Store(c, Key("developer_graph"),
               AddDistanceEdges(EmptyDeveloperGraph,
                   SelectSeq(CalculateRsrdDistances(g),
                             LAMBDA e : Greater(e.v, Frac(0, 1)))))

\* ---------------------------------------------------------------- connectors
RECURSIVE Gcd(_, _)
Gcd(a, b) == IF b = 0 THEN a ELSE Gcd(b, a % b)

\* fractions in lowest terms
Reduced(n, d) == IF n = 0 THEN Frac(0, 1) ELSE Frac(n \div Gcd(n, d), d \div Gcd(n, d))

Plus(a, b) == Reduced(a.n * b.d + b.n * a.d, a.d * b.d)

RECURSIVE Sum(_)
Sum(fracs) == IF fracs = <<>> THEN Frac(0, 1) ELSE Plus(Head(fracs), Sum(Tail(fracs)))

\* the length of a path of the developer graph: the sum of its distances
PathLength(devG, path) ==
    Sum([i \in 1..(Len(path) - 1) |-> devG.edata[{path[i], path[i + 1]}].distance])

ShortestPaths(devG, s, t) ==
    LET paths == Range(AllSimplePathsFrom(devG, <<s>>, {t}, Len(devG.node)))
    IN {p \in paths :
           \A q \in paths : ~Greater(PathLength(devG, p), PathLength(devG, q))}

\* the share of the shortest paths from s to t that pass through v
Dependency(devG, s, t, v) ==
    LET paths == ShortestPaths(devG, s, t) IN
    IF paths = {} THEN Frac(0, 1)
    ELSE Reduced(Cardinality({p \in paths : v \in Range(p)}), Cardinality(paths))

\* nx.betweenness_centrality(devG, weight="distance", normalized=True): for
\* every node the dependencies of the ordered pairs of other nodes, summed
\* and divided by (n - 1)(n - 2) when the graph has more than two nodes
BetweennessCentrality(devG) ==
    LET n == Len(devG.node)
        pairs == [k \in 1..(n * n) |->
                     <<devG.node[((k - 1) \div n) + 1], devG.node[((k - 1) % n) + 1]>>]
        Of(v) == LET others == SelectSeq(pairs, LAMBDA e :
                                   e[1] # e[2] /\ e[1] # v /\ e[2] # v)
                 IN Sum([k \in 1..Len(others) |->
                            Dependency(devG, others[k][1], others[k][2], v)])
        scale == IF n > 2 THEN (n - 1) * (n - 2) ELSE 1
    IN [i \in 1..n |->
           Entry(devG.node[i], Reduced(Of(devG.node[i]).n, Of(devG.node[i]).d * scale))]

GetConnectors(c, g) ==
    IF Key("connectors") \in DOMAIN c THEN Ok(c[Key("connectors")], c)
    ELSE Try(GetDeveloperGraph(c, g), LAMBDA devG :
             Store(devG.cache, Key("connectors"),
                   SortAndFilter(BetweennessCentrality(devG.val))))

GetDevToReachableDevs(c, g) ==
    Try(GetDeveloperGraph(c, g), LAMBDA devG :
        Ok([i \in 1..Len(devG.val.node) |->
               Entry(devG.val.node[i], devG.val.adj[devG.val.node[i]])],
           devG.cache))

\* the loop of find_last_sig_connector
RECURSIVE LastSigConnector(_, _, _, _, _)
LastSigConnector(c, connectors, dev_to_reachable_devs, covered_developers, num_developers) ==
    IF connectors = <<>> THEN None(c)
    ELSE LET now == covered_developers \cup {Head(connectors)}
                        \cup Range(Get(dev_to_reachable_devs, Head(connectors)))
         IN IF num_developers = 0 THEN Raise("ZeroDivisionError", c)
            ELSE IF Cardinality(now) * ParetoDen >= ParetoNum * num_developers
            THEN Ok(Head(connectors), c)
            ELSE LastSigConnector(c, Tail(connectors), dev_to_reachable_devs, now,
                                  num_developers)

\* the share is taken of the developers that have an edge in the developer graph
FindLastSigConnector_OfJoined(c, g) ==
    Try(GetDevToReachableDevs(c, g), LAMBDA dev_to_reachable_devs :
    Try(GetConnectors(dev_to_reachable_devs.cache, g), LAMBDA connectors :
        LastSigConnector(connectors.cache, Keys(connectors.val),
                         dev_to_reachable_devs.val, {}, Len(dev_to_reachable_devs.val))))

FindLastSigConnector(c, g) ==
    Try(GetDevToReachableDevs(c, g), LAMBDA dev_to_reachable_devs :
    Try(GetConnectors(dev_to_reachable_devs.cache, g), LAMBDA connectors :
        LastSigConnector(connectors.cache, Keys(connectors.val),
                         dev_to_reachable_devs.val, {}, Len(GetDevelopers(g)))))

\* ---------------------------------------------------------------- accessor calls
\* A call of an accessor changes nothing but the cache.
Call(r) == cache' = r.cache /\ UNCHANGED <<window, lastIncluded, noMoreDays, G, numberOfFiles, ret, locals>>

CallFindReachableFiles == \E developer \in Developers : Call(FindReachableFiles(cache, G, developer))

CallGetDevToReachableFiles == Call(GetDevToReachableFiles(cache, G))

CallGetFileToDevs == Call(GetFileToDevs(cache, G))

CallGetDevToRareFiles == Call(GetDevToRareFiles(cache, G))

CallGetJacks == Call(GetJacks(cache, G, numberOfFiles))

CallGetMavens == Call(GetMavens(cache, G))

CallFindLastSigJack == Call(FindLastSigJack(cache, G, numberOfFiles))

CallFindLastSigMaven == Call(FindLastSigMaven(cache, G))

CallFindReplacement(developers) ==
    \E developer \in developers : Call(FindReplacement(cache, G, developer))

CallBalancedOrHero == Call(BalancedOrHero(cache, G, numberOfFiles))

InitMetrics == Construct(MetricData) /\ locals = NoLocals

NextMetrics ==
    \/ ForwardGraphOneDay(MetricData)
    \/ CallFindReachableFiles
    \/ CallGetDevToReachableFiles
    \/ CallGetFileToDevs
    \/ CallGetDevToRareFiles
    \/ CallGetJacks
    \/ CallGetMavens
    \/ CallFindLastSigJack
    \/ CallFindLastSigMaven
    \/ CallFindReplacement(Developers)
    \/ CallBalancedOrHero

SpecMetrics == InitMetrics /\ [][NextMetrics]_vars

\* the window moved to a date
InitUntil == Construct(UntilData) /\ locals = NoLocals

NextUntil ==
    \/ ForwardGraphOneDay(UntilData)
    \/ ForwardUntil(UntilData)
    \/ CallGetJacks

SpecUntil == InitUntil /\ [][NextUntil]_vars

\* the team large enough for replacements and for the shape of the team
InitTeam == Construct(TeamData) /\ locals = NoLocals

NextTeam ==
    \/ ForwardGraphOneDay(TeamData)
    \/ CallFindReplacement(Leaving)
    \/ CallBalancedOrHero

SpecTeam == InitTeam /\ [][NextTeam]_vars

\* the developers joined through the files and issues of their change sets
CallGetDeveloperGraph == Call(GetDeveloperGraph(cache, G))

InitDevelopers == Construct(TeamData) /\ locals = NoLocals

NextDevelopers ==
    \/ ForwardGraphOneDay(TeamData)
    \/ CallGetDeveloperGraph

SpecDevelopers == InitDevelopers /\ [][NextDevelopers]_vars

\* the developers that join the others of the team
CallFindLastSigConnector == Call(FindLastSigConnector(cache, G))

InitConnectors == Construct(ConnectorData) /\ locals = NoLocals

NextConnectors ==
    \/ ForwardGraphOneDay(ConnectorData)
    \/ CallFindLastSigConnector

SpecConnectors == InitConnectors /\ [][NextConnectors]_vars

\* a developer with two commits on one day that fix the same issue
SearchData == [single |-> {Plain("d2", "f1"), Fix("d2", "f2")},
               pairs |-> {<<Fix("d1", "f1"), Fix("d1", "f2")>>},
               triples |-> {}]

InitSearch == Construct(SearchData) /\ locals = NoLocals

NextSearch ==
    \/ ForwardGraphOneDay(SearchData)
    \/ CallFindReachableFiles

SpecSearch == InitSearch /\ [][NextSearch]_vars

\* ---------------------------------------------------------------- the experiment
\* get_num_possible_iterations of the DataManager: the positions the window
\* takes over a data set that ends on last_day, the first position included
GetNumPossibleIterations(last_day) == last_day - WindowSize + 1

GetNumIterations(last_day) == GetNumPossibleIterations(last_day)

\* the loop has left through its break
Broke == ret.op = "forward_graph_one_day" /\ ~ret.val

\* the counter follows the advance and counts the advances that succeeded
Iterate_CountsAdvances(data) ==
    /\ ~Broke
    /\ \/ SlidingFails /\ UNCHANGED locals
       \/ Slide(data) /\ locals' = [locals EXCEPT !.step = @ + 1]

\* one pass of the loop that traverses the data set: the step counter, the
\* work on the graph as it stands, the advance and the break
Iterate(data) ==
    /\ ~Broke
    /\ locals' = [locals EXCEPT !.step = @ + 1]
    /\ \/ SlidingFails
       \/ Slide(data)

InitDriver == Construct(UntilData) /\ locals = [step |-> 0]

NextDriver == Iterate(UntilData)

\* the pass that finds the window exhausted, and the pass that advances it
Breaks == lastIncluded' = lastIncluded /\ NextDriver

Advances == lastIncluded' = lastIncluded + 1 /\ NextDriver

\* the states in which a pass can advance the window
CanAdvance == ~Broke /\ ~noMoreDays /\ lastIncluded < MaxDays

\* The loop is sequential code that runs on until its break: a pass that can be
\* made is made. This is weak fairness of both passes; that of the advancing
\* pass is written out, with CanAdvance for ENABLED <<Advances>>_vars.
SpecDriver ==
    /\ InitDriver
    /\ [][NextDriver]_vars
    /\ WF_vars(Breaks)
    /\ ([]<>~CanAdvance \/ []<><<Advances>>_vars)

\* ---------------------------------------------------------------- leaving developers
\* the day on which the developer was missed
LeavingDay_Missed(date) == date

\* date - timedelta(days=absence_limit)
LeavingDay(date) == date - WindowSize

\* the developers are filed under the date the window has reached
FindLeavingPass_LastIncluded(data) ==
    LET developers == Range(GetDevelopers(G))
        leaving_developers == locals.prev_developers \ developers
    IN /\ ~Broke
       /\ locals' =
              [locals EXCEPT
                  !.prev_developers = developers,
                  !.date_to_leaving_developers =
                      IF leaving_developers # {}
                      THEN Append(@, Entry(lastIncluded, leaving_developers))
                      ELSE @,
                  !.dataset = Append(@, window[WindowSize])]
       /\ \/ SlidingFails
          \/ Slide(data)

\* find_leaving_developers: one pass of its loop over the copy of the graph
\* (dataset: the days of the data set the copy has been through, from the
\* last day of the first window on)
FindLeavingPass(data) ==
    LET developers == Range(GetDevelopers(G))
        leaving_developers == locals.prev_developers \ developers
    IN /\ ~Broke
       /\ locals' =
              [locals EXCEPT
                  !.prev_developers = developers,
                  !.date_to_leaving_developers =
                      IF leaving_developers # {}
                      THEN Append(@, Entry(LeavingDay(lastIncluded), leaving_developers))
                      ELSE @,
                  !.dataset = Append(@, window[WindowSize])]
       /\ \/ SlidingFails
          \/ Slide(data)

InitLeaving ==
    /\ Construct(UntilData)
    /\ locals = [prev_developers |-> {}, date_to_leaving_developers |-> <<>>,
                 dataset |-> <<>>]

NextLeaving == FindLeavingPass(UntilData)

SpecLeaving == InitLeaving /\ [][NextLeaving]_vars

\* ---------------------------------------------------------------- preprocessing
MaxRows == 3

\* a file path: its directory, and its name with the extension
Path(dir, stem, ext) == [dir |-> dir, stem |-> stem, ext |-> ext]

\* a row of code_change: file_path, change_type, sum_added_lines, sum_removed_lines
Row(fpath, ctype, num_added, num_deleted) ==
    [fpath |-> fpath, ctype |-> ctype, num_added |-> num_added,
     num_deleted |-> num_deleted]

JavaPaths == {Path("x", "Old", "java"), Path("x", "New", "java"), Path("y", "Old", "java")}

Rows ==
    {Row(p, "ADD", n, 0) : p \in JavaPaths, n \in {12, 7}}
        \cup {Row(p, "DELETE", 0, 12) : p \in JavaPaths}
        \cup {Row(p, "MODIFY", 7, 12) : p \in JavaPaths}
        \cup {Row(Path("x", "Old", "txt"), "ADD", 12, 0)}

\* the changes of a commit are kept in one queue, whatever the names of the files
FileName_Any(fpath) == <<>>

\* fpath[fpath.rfind("/") + 1 :]
FileName(fpath) == <<fpath.stem, fpath.ext>>

\* get_commit_to_codechanges: the rows of the commit whose path ends with .java
RECURSIVE CodeChangesOf(_)
CodeChangesOf(rows) ==
    IF rows = <<>> THEN <<>>
    ELSE IF Head(rows).fpath.ext = "java"
         THEN <<Head(rows)>> \o CodeChangesOf(Tail(rows))
         ELSE CodeChangesOf(Tail(rows))

RECURSIVE FnameToCchanges(_, _)
FnameToCchanges(cchanges, fname_to_cchanges) ==
    IF cchanges = <<>> THEN fname_to_cchanges
    ELSE FnameToCchanges(Tail(cchanges),
             AppendTo(fname_to_cchanges, FileName(Head(cchanges).fpath),
                      Head(cchanges)))

\* list.remove(x): without the first element equal to x
Removed(queue, x) ==
    LET i == CHOOSE j \in 1..Len(queue) :
                 queue[j] = x /\ \A k \in 1..(j - 1) : queue[k] # x
    IN SubSeq(queue, 1, i - 1) \o SubSeq(queue, i + 1, Len(queue))

\* the first change of the queue for which the search of a RENAME breaks
Corresponding(cchange, cchanges_queue) ==
    LET Match(cc) ==
            \/ /\ cchange.ctype = "ADD"
               /\ cc.ctype = "DELETE"
               /\ cc.num_deleted = cchange.num_added
            \/ /\ cchange.ctype = "DELETE"
               /\ cc.ctype = "ADD"
               /\ cc.num_added = cchange.num_deleted
    IN SelectSeq(cchanges_queue, Match)

\* while cchanges_queue: the changes extracted from the queue of one file name
RECURSIVE ExtractQueue(_, _)
ExtractQueue(cchanges_queue, extracted_changes) ==
    IF cchanges_queue = <<>> THEN extracted_changes
    ELSE LET cchange == Head(cchanges_queue)
             found == Corresponding(cchange, Tail(cchanges_queue))
         IN IF found # <<>>
            THEN ExtractQueue(Removed(Tail(cchanges_queue), found[1]),
                     Append(extracted_changes,
                            IF cchange.ctype = "ADD"
                            THEN Rename(found[1].fpath, cchange.fpath)
                            ELSE Rename(cchange.fpath, found[1].fpath)))
            ELSE ExtractQueue(Tail(cchanges_queue),
                     Append(extracted_changes,
                            [change_type |-> cchange.ctype,
                             file_path |-> cchange.fpath,
                             old_file_path |-> ""]))

RECURSIVE ExtractQueues(_, _)
ExtractQueues(fname_to_cchanges, extracted_changes) ==
    IF fname_to_cchanges = <<>> THEN extracted_changes
    ELSE ExtractQueues(Tail(fname_to_cchanges),
             ExtractQueue(Head(fname_to_cchanges).v, extracted_changes))

ExtractedChanges(rows) == ExtractQueues(FnameToCchanges(CodeChangesOf(rows), <<>>), <<>>)

\* the set of files after the changes
RECURSIVE CurrentFiles(_, _)
CurrentFiles(extracted_changes, current_files) ==
    IF extracted_changes = <<>> THEN current_files
    ELSE LET c == Head(extracted_changes) IN
         CurrentFiles(Tail(extracted_changes),
             CASE c.change_type = "DELETE" -> current_files \ {c.file_path}
               [] c.change_type = "ADD" -> current_files \cup {c.file_path}
               [] c.change_type = "RENAME" ->
                      (current_files \ {c.old_file_path}) \cup {c.file_path}
               [] OTHER -> current_files)

\* extract_change_sets, for the first commit of a project
ExtractChangeSets ==
    /\ ret = Returned("get_commit_to_codechanges", TRUE, FALSE)
    /\ \E extracted_changes \in {ExtractedChanges(locals.rows)} :
           locals' = [rows |-> locals.rows,
                      code_changes |-> extracted_changes,
                      num_current_files |->
                          Cardinality(CurrentFiles(extracted_changes, {}))]
    /\ ret' = Returned("extract_change_sets", TRUE, FALSE)
    /\ UNCHANGED <<window, lastIncluded, noMoreDays, G, numberOfFiles, cache>>

\* no graph yet: the data set is being written
InitExtract ==
    /\ window = <<>>
    /\ lastIncluded = 0
    /\ noMoreDays = FALSE
    /\ G = EmptyGraph
    /\ numberOfFiles = 0
    /\ cache = EmptyCache
    /\ ret = Returned("get_commit_to_codechanges", TRUE, FALSE)
    /\ \E n \in 0..MaxRows : \E rows \in [1..n -> Rows] :
           locals = [rows |-> rows, code_changes |-> <<>>, num_current_files |-> 0]

NextExtract == ExtractChangeSets

SpecExtract == InitExtract /\ [][NextExtract]_vars

\* ---------------------------------------------------------------- window claims
InWindow == Concat(window)

HasEdge(u, v) == {u, v} \in DOMAIN G.edata

NodesOfKind(k) == {n \in NodeSet(G) : G.kind[n] = k}

Advanced == ret.op = "forward_graph_one_day" /\ ret.val

\* C1: the graph holds exactly the contribution of the change sets dated in
\* [lastIncluded - WindowSize + 1, lastIncluded]: every ChangeSet node is a
\* change set of that interval, and every change set of the interval that is
\* not skipped as large has its node, its author's node and the commit edge.
C1_WindowInvariant ==
    /\ \A n \in NodesOfKind("ChangeSet") :
          \E i \in 1..Len(InWindow) :
             /\ InWindow[i].commit_hash = n
             /\ InWindow[i].date \in FirstIncluded..lastIncluded
    /\ \A i \in 1..Len(InWindow) :
          LET cs == InWindow[i] IN
          /\ cs.date \in FirstIncluded..lastIncluded
          /\ ~IsLarge(cs) =>
                /\ cs.commit_hash \in NodesOfKind("ChangeSet")
                /\ cs.author \in NodesOfKind("Developer")
                /\ HasEdge(cs.author, cs.commit_hash)
                /\ G.edata[{cs.author, cs.commit_hash}].kind = "commit"

C1_Witness ==
    /\ Advanced
    /\ lastIncluded > WindowSize + 1
    /\ \E i, j \in 1..Len(InWindow) : IsLarge(InWindow[i]) /\ ~IsLarge(InWindow[j])

\* C2: after a successful advance no node has degree zero, and every
\* Developer, File and Issue node is adjacent to the ChangeSet node of a
\* change set of the window.
C2_NoOrphan ==
    Advanced =>
        /\ Isolates(G) = {}
        /\ \A n \in NodeSet(G) :
              G.kind[n] # "ChangeSet" =>
                 \E i \in 1..Len(InWindow) :
                    /\ InWindow[i].commit_hash \in NodesOfKind("ChangeSet")
                    /\ HasEdge(n, InWindow[i].commit_hash)

\* the first advance evicts the first day, which is never empty
C2_Witness ==
    /\ Advanced
    /\ lastIncluded = WindowSize + 1
    /\ NodesOfKind("File") # {}
    /\ Cardinality(NodesOfKind("ChangeSet")) = 1

\* the mutations of the advance that led from the unprimed to the primed state
AdvanceOps == SlideGraph(G, window'[WindowSize], window[1]).ops

Precedes(o, P(_), Q(_)) ==
    \A i, j \in 1..Len(o) : P(o[i]) /\ Q(o[j]) => i < j

IsRenDel(e) == e.op \in {"rename", "delete"}
IsRemove(e) == e.op = "remove"
IsAdd(e) == e.op = "add"

OwnChangesFirst(o) ==
    \A i, j \in 1..Len(o) :
        IsRenDel(o[i]) /\ IsAdd(o[j]) /\ o[i].cs = o[j].cs => i < j

\* C3 as claimed: in one advance the renames and deletions of the incoming
\* change sets come before their additions and before every removal of a
\* change set that leaves the window.
C3_RenamesBeforeRemovals ==
    [][lastIncluded' = lastIncluded + 1 =>
          \A o \in {AdvanceOps} :
             /\ OwnChangesFirst(o)
             /\ Precedes(o, IsRenDel, IsRemove)]_vars

\* C3 amended: in one advance the change sets leaving the window are removed
\* first; then the incoming change sets are applied one after the other, each
\* with its renames, then its deletions, then its additions.
C3_RemovalsFirst ==
    [][lastIncluded' = lastIncluded + 1 =>
          \A o \in {AdvanceOps} :
          LET added == window'[WindowSize]
              Pos(h) == CHOOSE k \in 1..Len(added) : added[k].commit_hash = h
              Rank(e) == CASE e.op = "rename" -> 1 [] e.op = "delete" -> 2
                           [] OTHER -> 3
          IN /\ Precedes(o, IsRemove, LAMBDA e : ~IsRemove(e))
             /\ \A i, j \in 1..Len(o) :
                   /\ i < j
                   /\ ~IsRemove(o[i])
                   /\ ~IsRemove(o[j])
                   => \/ Pos(o[i].cs) < Pos(o[j].cs)
                      \/ Pos(o[i].cs) = Pos(o[j].cs) /\ Rank(o[i]) < Rank(o[j])
             /\ {o[i].cs : i \in {k \in 1..Len(o) : IsRemove(o[k])}}
                   = {window[1][k].commit_hash : k \in 1..Len(window[1])}]_vars

HasStructural(cs) == DOMAIN FilesRenameDict(cs) # {} \/ FilesDelete(cs) # <<>>

\* a change set was evicted and the incoming one was renamed, pruned and added
C3_Witness ==
    /\ Advanced
    /\ lastIncluded = WindowSize + 1
    /\ \E i \in 1..Len(window[WindowSize]) :
          LET cs == window[WindowSize][i] IN
          /\ HasStructural(cs)
          /\ ~IsLarge(cs)

RenameTargets(cs) == {FilesRenameDict(cs)[o] : o \in DOMAIN FilesRenameDict(cs)}

\* C4 as claimed: when a change set renames A to B and the last change set
\* applied, still in the same window, modifies B, then B is a File node
\* with an edge to both change sets and A is not a node.
C4_EdgesFromBothEvents ==
    \A i \in 1..(Len(InWindow) - 1) :
       \A A \in DOMAIN FilesRenameDict(InWindow[i]) :
          LET X == InWindow[i]
              Y == InWindow[Len(InWindow)]
              B == FilesRenameDict(X)[A]
          IN B \in Range(FilesAddModify(Y)) =>
                /\ B \in NodesOfKind("File")
                /\ A \notin NodeSet(G)
                /\ HasEdge(X.commit_hash, B)
                /\ HasEdge(Y.commit_hash, B)

\* C4 amended: when a change set X renames A to B and the last change set
\* applied, Y, still in the same window and not skipped as large, adds or
\* modifies B, then B is a File node with the include edge of Y; the rename
\* itself contributes no edge (X is adjacent to B only if X inserted files of
\* its own); A is not a node unless X or a later change set adds, modifies or
\* renames a file to A; and the include edges that earlier change sets of the
\* window held to A are held to B, provided X deletes nothing and no other
\* change set of the window renames or deletes.
C4_RenameThenModify ==
    \A i \in 1..(Len(InWindow) - 1) :
       \A A \in DOMAIN FilesRenameDict(InWindow[i]) :
          LET n == Len(InWindow)
              X == InWindow[i]
              Y == InWindow[n]
              B == FilesRenameDict(X)[A]
          IN (B \in Range(FilesAddModify(Y)) /\ ~IsLarge(Y)) =>
                /\ B \in NodesOfKind("File")
                /\ HasEdge(Y.commit_hash, B)
                /\ G.edata[{Y.commit_hash, B}] = [date |-> Y.date, kind |-> "include"]
                /\ HasEdge(X.commit_hash, B) =>
                      ~IsLarge(X) /\ FilesAddModify(X) # <<>>
                /\ (\A k \in i..n : A \notin Range(FilesAddModify(InWindow[k]))
                                       \cup RenameTargets(InWindow[k]))
                      => A \notin NodeSet(G)
                /\ (FilesDelete(X) = <<>>
                    /\ \A k \in 1..n : k # i => ~HasStructural(InWindow[k]))
                      => \A k \in 1..(i - 1) :
                            (~IsLarge(InWindow[k])
                             /\ A \in Range(FilesAddModify(InWindow[k])))
                            => HasEdge(InWindow[k].commit_hash, B)

\* an earlier change set held an edge to A, the next renamed A to B without
\* touching a file, the last one modified B
C4_Witness ==
    /\ Advanced
    /\ Len(InWindow) = 3
    /\ LET Z == InWindow[1]
           X == InWindow[2]
           Y == InWindow[3]
       IN /\ ~IsLarge(Z) /\ "f1" \in Range(FilesAddModify(Z))
          /\ X.code_changes = <<Rename("f1", "f2")>>
          /\ ~IsLarge(Y) /\ "f2" \in Range(FilesAddModify(Y))
          /\ ~HasStructural(Y)
          /\ HasEdge(Z.commit_hash, "f2")
          /\ ~HasEdge(X.commit_hash, "f2")
          /\ "f1" \notin NodeSet(G)

\* ---------------------------------------------------------------- cache claims
\* C5: a successful advance of the window leaves the cache empty, whatever it
\* held before, so nothing memoized for an earlier window is left to return.
C5_CacheCleared == [][lastIncluded' = lastIncluded + 1 => cache' = EmptyCache]_vars

\* an advance has just dropped a cache that held results
C5_Witness == Advanced /\ ret.cleared /\ cache = EmptyCache /\ NodesOfKind("Developer") # {}

\* what a caller sees of a call
Seen(r) == IF r.outcome = "ok" THEN <<"ok", r.val>> ELSE <<r.outcome>>

\* what each accessor would return if it were called now with cache c
Results(c) ==
    [reachable_files |-> [d \in Developers |-> Seen(FindReachableFiles(c, G, d))],
     dev_to_reachable_files |-> Seen(GetDevToReachableFiles(c, G)),
     file_to_devs |-> Seen(GetFileToDevs(c, G)),
     dev_to_rare_files |-> Seen(GetDevToRareFiles(c, G)),
     num_reachable_files |-> Seen(GetNumReachableFiles(c, G)),
     num_rare_files |-> Seen(GetNumRareFiles(c, G)),
     jacks |-> Seen(GetJacks(c, G, numberOfFiles)),
     mavens |-> Seen(GetMavens(c, G)),
     last_sig_jack |-> Seen(FindLastSigJack(c, G, numberOfFiles)),
     last_sig_maven |-> Seen(FindLastSigMaven(c, G)),
     replacement |-> [d \in Developers |-> Seen(FindReplacement(c, G, d))],
     balanced_or_hero |-> Seen(BalancedOrHero(c, G, numberOfFiles)),
     top_committers |-> GetTopCommitters(G)]

Exhausted == ret.op = "forward_graph_one_day" /\ ~ret.val

\* C7: the call of forward_graph_one_day that finds no day left returns False
\* and changes neither the graph, the cache, the file count nor the window;
\* from then on no call of it succeeds and graph, file count and window stay
\* as they are.
C7_ExhaustedForward ==
    [][/\ (~Exhausted /\ Exhausted') =>
              UNCHANGED <<G, cache, numberOfFiles, lastIncluded, window>>
       /\ Exhausted =>
              (Exhausted' /\ UNCHANGED <<G, numberOfFiles, lastIncluded, window>>)]_vars

\* the window has moved, results are memoized, and the last call found no day
C7_Witness == Exhausted /\ lastIncluded > WindowSize /\ Key("jacks") \in DOMAIN cache

\* ---------------------------------------------------------------- search claims
CurrentDevelopers == NodesOfKind("Developer")

Limit == DistanceLimit * DistanceScale

EdgeDistance(u, v) == CalculateDistance(G.edata[{u, v}].date)

\* the nodes the search from dev pushes, in the order it pushes them
Visits(dev) == SearchFrom(G, G.kind, dev).visits

\* the distance at which the search from dev stands on node n
StandsAt(dev, v, n) ==
    IF n = dev THEN 0 ELSE v[CHOOSE i \in 1..Len(v) : v[i].node = n].distance

\* the ends and lengths of the walks from dev that pass through no other
\* developer and stay within the limit
RECURSIVE Walks(_, _)
Walks(dev, found) ==
    LET longer == UNION {{<<G.adj[w[1]][i], w[2] + EdgeDistance(w[1], G.adj[w[1]][i])>> :
                             i \in 1..Len(G.adj[w[1]])} : w \in found}
        more == found \cup {w \in longer : G.kind[w[1]] # "Developer" /\ w[2] <= Limit}
    IN IF more = found THEN found ELSE Walks(dev, more)

Within(dev) == {w[1] : w \in Walks(dev, {<<dev, 0>>})}

\* C8: the search from a developer pushes no node twice, no node beyond the
\* distance limit and no other developer; every node it pushes was reached
\* over an edge from the developer or from a node pushed before it, at the
\* distance of that node plus the distance of the edge; a neighbour of a node
\* it stands on that is no developer and lies within the limit, the limit
\* itself included, is pushed; and what find_reachable_files returns are the
\* File nodes among the pushed ones, each joined to the developer by a path
\* through no other developer whose length is within the limit.
C8_SearchPruning ==
    \A dev \in CurrentDevelopers :
        \A v \in {Visits(dev)} :
            LET pushed == {v[i].node : i \in 1..Len(v)}
                r == FindReachableFiles(cache, G, dev)
            IN /\ \A i \in 1..Len(v) :
                     /\ v[i].distance <= Limit
                     /\ G.kind[v[i].node] # "Developer"
                     /\ \A j \in 1..Len(v) : v[j].node = v[i].node => j = i
                     /\ {v[i].parent, v[i].node} \in DOMAIN G.edata
                     /\ \/ v[i].parent = dev
                        \/ \E j \in 1..(i - 1) : v[j].node = v[i].parent
                     /\ v[i].distance = StandsAt(dev, v, v[i].parent)
                                        + EdgeDistance(v[i].parent, v[i].node)
               /\ \A p \in pushed \cup {dev} :
                     \A i \in 1..Len(G.adj[p]) :
                         LET c == G.adj[p][i] IN
                         (/\ G.kind[c] # "Developer"
                          /\ StandsAt(dev, v, p) + EdgeDistance(p, c) <= Limit)
                             => c \in pushed
               /\ r.outcome = "ok"
               /\ r.val = SelectSeq([i \in 1..Len(v) |-> v[i].node],
                                    LAMBDA n : G.kind[n] = "File")
               /\ \A f \in Range(r.val) : G.kind[f] = "File" /\ f \in Within(dev)

\* a search reaches a file at exactly the limit, a search gives up a node that
\* is no developer beyond the limit, and a search stops at another developer
\* within the limit
C8_Witness ==
    /\ \E dev \in CurrentDevelopers :
           \E i \in 1..Len(Visits(dev)) :
               /\ Visits(dev)[i].distance = Limit
               /\ G.kind[Visits(dev)[i].node] = "File"
    /\ \E dev \in CurrentDevelopers :
           \E i \in 1..Len(Visits(dev)) :
               \E c \in Range(G.adj[Visits(dev)[i].node]) :
                   /\ G.kind[c] # "Developer"
                   /\ \A j \in 1..Len(Visits(dev)) : Visits(dev)[j].node # c
                   /\ Visits(dev)[i].distance + EdgeDistance(Visits(dev)[i].node, c) > Limit
    /\ \E dev \in CurrentDevelopers :
           \E i \in 1..Len(Visits(dev)) :
               \E c \in Range(G.adj[Visits(dev)[i].node]) :
                   /\ G.kind[c] = "Developer"
                   /\ c # dev
                   /\ Visits(dev)[i].distance + EdgeDistance(Visits(dev)[i].node, c) <= Limit

\* ---------------------------------------------------------------- score claims
Threshold == Frac(ThresholdNum, ThresholdDen)

\* the files find_reachable_files returns for dev in this state
Reached(dev) == Range(FindReachableFiles(cache, G, dev).val)

\* a score dictionary: no key twice, scores never increasing
Ranked(d) ==
    /\ \A i, j \in 1..Len(d) : d[i].k = d[j].k => i = j
    /\ \A i, j \in 1..Len(d) : i < j => ~Greater(d[j].v, d[i].v)

\* C9: when get_jacks returns, its keys are exactly the developers for whom
\* the number of reachable files divided by the number of files in the
\* project is at least the threshold, each mapped to that quotient, in
\* non-increasing order of it; no developer without a reachable file is a key.
C9_Jacks ==
    \A r \in {GetJacks(cache, G, numberOfFiles)} :
        r.outcome = "ok" =>
            /\ Ranked(r.val)
            /\ Range(Keys(r.val)) =
                   {dev \in CurrentDevelopers :
                       AtLeast(Frac(Cardinality(Reached(dev)), numberOfFiles), Threshold)}
            /\ \A i \in 1..Len(r.val) :
                   /\ r.val[i].v = Frac(Cardinality(Reached(r.val[i].k)), numberOfFiles)
                   /\ Reached(r.val[i].k) # {}

\* get_jacks lists the developer it scored second first, and keeps the other
\* developer, whose score equals the threshold
C9_Witness ==
    /\ Advanced
    /\ \E jacks \in {GetJacks(cache, G, numberOfFiles).val} :
           /\ Len(jacks) = 2
           /\ Greater(jacks[1].v, jacks[2].v)
           /\ AtLeast(Threshold, jacks[2].v)
           /\ Keys(GetDevToReachableFiles(cache, G).val) = <<jacks[2].k, jacks[1].k>>

\* the files exactly one current developer reaches, by that developer
RareOf(dev) ==
    {f \in Reached(dev) : \A other \in CurrentDevelopers : f \in Reached(other) => other = dev}

NumRare == Cardinality(UNION {RareOf(dev) : dev \in CurrentDevelopers})

\* C10: get_dev_to_rare_files gives each developer the files that developer
\* and no other current developer reaches; get_num_rare_files is the number
\* of files reached by exactly one developer; get_mavens maps the developers
\* with such files to their number of them divided by get_num_rare_files(),
\* keeps the scores that are at least the threshold and lists them in
\* non-increasing order.
C10_Mavens ==
    \A rare \in {GetDevToRareFiles(cache, G)} :
    \A mavens \in {GetMavens(cache, G)} :
        /\ rare.outcome = "ok" /\ mavens.outcome = "ok"
        /\ \A i, j \in 1..Len(rare.val) : rare.val[i].k = rare.val[j].k => i = j
        /\ Range(Keys(rare.val)) = {dev \in CurrentDevelopers : RareOf(dev) # {}}
        /\ \A i \in 1..Len(rare.val) :
               /\ Range(rare.val[i].v) = RareOf(rare.val[i].k)
               /\ Len(rare.val[i].v) = Cardinality(RareOf(rare.val[i].k))
        /\ Seen(GetNumRareFiles(cache, G)) = <<"ok", NumRare>>
        /\ Ranked(mavens.val)
        /\ Range(Keys(mavens.val)) =
               {dev \in CurrentDevelopers :
                   /\ RareOf(dev) # {}
                   /\ AtLeast(Frac(Cardinality(RareOf(dev)), NumRare), Threshold)}
        /\ \A i \in 1..Len(mavens.val) :
               mavens.val[i].v = Frac(Cardinality(RareOf(mavens.val[i].k)), NumRare)

\* one developer reaches a file alone and shares another file with a second
\* developer, who is no maven
C10_Witness ==
    /\ Advanced
    /\ \E dev, other \in CurrentDevelopers :
           /\ RareOf(dev) # {}
           /\ Reached(dev) \cap Reached(other) # {}
           /\ other # dev
           /\ Keys(GetMavens(cache, G).val) = <<dev>>

\* the files some current developer reaches
AllReached == UNION {Reached(dev) : dev \in CurrentDevelopers}

\* the first n developers of names reach at least 80% of the reachable files
Covers(names, n) ==
    Cardinality(UNION {Reached(names[i]) : i \in 1..n}) * 5 >= 4 * Cardinality(AllReached)

\* C11: when get_jacks returns, find_last_sig_jack returns the developer that
\* ends the shortest prefix of the jack dictionary whose reachable files,
\* taken together, are at least 80% of get_num_reachable_files(), so that the
\* prefix without that developer covers less than 80%; it returns None when
\* no prefix reaches 80%, as when there is no jack.
C11_LastSigJack ==
    \A jacks \in {GetJacks(cache, G, numberOfFiles)} :
    \A last \in {FindLastSigJack(cache, G, numberOfFiles)} :
    \A names \in {Keys(jacks.val)} :
        jacks.outcome = "ok" =>
            /\ Seen(GetNumReachableFiles(cache, G)) = <<"ok", Cardinality(AllReached)>>
            /\ last.outcome \in {"ok", "None"}
            /\ last.outcome = "None" <=> \A n \in 1..Len(names) : ~Covers(names, n)
            /\ last.outcome = "ok" =>
                   \E n \in 1..Len(names) :
                       /\ names[n] = last.val
                       /\ Covers(names, n)
                       /\ \A m \in 1..(n - 1) : ~Covers(names, m)

\* the second jack is the last significant one: the first jack alone covers
\* less than 80% of the reachable files
C11_Witness ==
    /\ Advanced
    /\ \E names \in {Keys(GetJacks(cache, G, numberOfFiles).val)} :
           /\ Len(names) = 2
           /\ ~Covers(names, 1)
           /\ Seen(FindLastSigJack(cache, G, numberOfFiles)) = <<"ok", names[2]>>

\* ---------------------------------------------------------------- replacement claims
Others(dev) == CurrentDevelopers \ {dev}

\* the share of the files dev reaches that other reaches too
Overlap(dev, other) ==
    Frac(Cardinality(Reached(dev) \cap Reached(other)), Cardinality(Reached(dev)))

C13_StrictlyDescending ==
    \A dev \in CurrentDevelopers :
    \A r \in {FindReplacement(cache, G, dev)} :
        r.outcome = "ok" =>
            \A i \in 1..(Len(r.val) - 1) : Greater(r.val[i].v, r.val[i + 1].v)

\* C13: in a dictionary find_replacement(dev) returns, the ratio of each entry
\* is at least the ratio of the entry after it, entries of equal ratio stand
\* in the order of get_developers(), and the entries are the other developers
\* whose ratio is at least the threshold, each with the share of the files of
\* dev it reaches.
C13_Descending ==
    \A dev \in CurrentDevelopers :
    \A r \in {FindReplacement(cache, G, dev)} :
    \A devs \in {GetDevelopers(G)} :
        r.outcome = "ok" =>
            /\ Ranked(r.val)
            /\ Range(Keys(r.val)) =
                   {other \in Others(dev) : AtLeast(Overlap(dev, other), Threshold)}
            /\ \A i \in 1..Len(r.val) : r.val[i].v = Overlap(dev, r.val[i].k)
            /\ \A i, j \in 1..Len(r.val) :
                   (i < j /\ ~Greater(r.val[i].v, r.val[j].v)) =>
                       \E a, b \in 1..Len(devs) :
                           a < b /\ devs[a] = r.val[i].k /\ devs[b] = r.val[j].k

\* a dictionary whose first entry has a greater ratio than the second, whose
\* second and third entries have the same ratio, and whose first developer
\* comes after the second in get_developers()
C13_Witness ==
    /\ Advanced
    /\ \E dev \in CurrentDevelopers :
       \E r \in {FindReplacement(cache, G, dev)} :
       \E devs \in {GetDevelopers(G)} :
           /\ r.outcome = "ok"
           /\ Len(r.val) >= 3
           /\ Greater(r.val[1].v, r.val[2].v)
           /\ r.val[2].v = r.val[3].v
           /\ \E a, b \in 1..Len(devs) :
                  a < b /\ devs[a] = r.val[2].k /\ devs[b] = r.val[1].k

\* ---------------------------------------------------------------- error claims
\* the developers of the data set that have no node in the graph
AbsentDevelopers == Developers \ NodeSet(G)

\* C14: for a developer who has no node in the graph, find_replacement ends
\* with an AssertionError and find_reachable_files with a KeyError, neither
\* returns a result, and such a call leaves the graph and the file counter as
\* they were.
C14_AbsentDeveloperFails ==
    /\ [](\A dev \in AbsentDevelopers :
             /\ FindReplacement(cache, G, dev).outcome = "AssertionError"
             /\ FindReachableFiles(cache, G, dev).outcome = "KeyError")
    /\ [][\A dev \in AbsentDevelopers :
             (/\ cache' \in {FindReplacement(cache, G, dev).cache,
                             FindReachableFiles(cache, G, dev).cache}
              /\ UNCHANGED <<window, lastIncluded, noMoreDays, ret>>)
             => UNCHANGED <<G, numberOfFiles>>]_vars

\* a developer of the data set has left the graph, and a call made for that
\* developer has failed after memoizing the node kinds
C14_Witness ==
    /\ Advanced
    /\ CurrentDevelopers # {}
    /\ AbsentDevelopers # {}
    /\ Key("node_kinds") \in DOMAIN cache
    /\ Key("dev_to_reachable_files") \notin DOMAIN cache
    /\ \A dev \in CurrentDevelopers : <<dev, "reachable_files">> \notin DOMAIN cache

\* a call that ends without an exception: a value or None
Returns(r) == r.outcome \in {"ok", "None"}

\* C15: degenerate graph states give an absent or empty result and never an
\* error: with no rare file get_mavens returns an empty dictionary and
\* find_last_sig_maven returns None, and with a file count of zero get_jacks,
\* balanced_or_hero and find_last_sig_jack return instead of raising a
\* division-by-zero error.
C15_DegenerateNeverRaises ==
    /\ NumRare = 0 =>
           /\ Seen(GetMavens(cache, G)) = <<"ok", <<>>>>
           /\ Seen(FindLastSigMaven(cache, G)) = <<"None">>
    /\ numberOfFiles = 0 =>
           /\ Returns(GetJacks(cache, G, numberOfFiles))
           /\ Returns(BalancedOrHero(cache, G, numberOfFiles))
           /\ Returns(FindLastSigJack(cache, G, numberOfFiles))

\* C16: when get_jacks returns, balanced_or_hero returns None exactly when
\* fewer than 3 Developer nodes are in the graph and otherwise a label,
\* "balanced" or "hero", decided on a list of scores that has exactly one
\* entry per current developer: the jack score of a developer that is a key of
\* the jack dictionary, 0 for every other developer.
C16_BalancedOrHero ==
    \A jacks \in {GetJacks(cache, G, numberOfFiles)} :
    \A r \in {BalancedOrHero(cache, G, numberOfFiles)} :
    \A devs \in {GetDevelopers(G)} :
        jacks.outcome = "ok" =>
            /\ Returns(r)
            /\ r.outcome = "None" <=> Cardinality(CurrentDevelopers) < 3
            /\ r.outcome = "ok" =>
                   /\ r.val[1] = "balanced or hero"
                   /\ Len(r.val[2]) = Cardinality(CurrentDevelopers)
                   /\ Range(devs) = CurrentDevelopers
                   /\ \A i \in 1..Len(devs) :
                          r.val[2][i] =
                              IF devs[i] \in Range(Keys(jacks.val))
                              THEN Frac(Cardinality(Reached(devs[i])), numberOfFiles)
                              ELSE Frac(0, 1)

\* at least three developers; one is a jack, one reaches a file without being
\* a jack and one reaches no file: the last two enter the list with 0
C16_Witness ==
    /\ Advanced
    /\ Cardinality(CurrentDevelopers) >= 3
    /\ BalancedOrHero(cache, G, numberOfFiles).outcome = "ok"
    /\ \E a, b, c \in CurrentDevelopers :
           /\ a \in Range(Keys(GetJacks(cache, G, numberOfFiles).val))
           /\ b \notin Range(Keys(GetJacks(cache, G, numberOfFiles).val))
           /\ Reached(b) # {}
           /\ Reached(c) = {}

\* ---------------------------------------------------------------- change set claims
\* cs adds or modifies more files than num_files_limit
ManyFiles(cs) ==
    Len(SelectSeq(cs.code_changes, LAMBDA cc : cc.change_type \in {"ADD", "MODIFY"}))
        > NumFilesLimit

\* the other change sets of the window
Inserted == {InWindow[i] : i \in {k \in 1..Len(InWindow) : ~ManyFiles(InWindow[k])}}

Neighbours(n) == Range(G.adj[n])

Readding(i, p) ==
    {k \in i..Len(InWindow) :
        /\ ~ManyFiles(InWindow[k])
        /\ \E j \in 1..Len(InWindow[k].code_changes) :
               /\ InWindow[k].code_changes[j].change_type \in {"ADD", "MODIFY"}
               /\ InWindow[k].code_changes[j].file_path = p}

\* a change set of the window after the i-th renames a file to p
RenamedOnto(i, p) ==
    \E k \in (i + 1)..Len(InWindow) :
    \E j \in 1..Len(InWindow[k].code_changes) :
        /\ InWindow[k].code_changes[j].change_type = "RENAME"
        /\ InWindow[k].code_changes[j].file_path = p

Deleting(cs) ==
    {cs.code_changes[j].file_path :
        j \in {k \in 1..Len(cs.code_changes) : cs.code_changes[k].change_type = "DELETE"}}

\* C18 as claimed: a path for which a change set of the window carries a
\* DELETE is a File node only if that change set or a later one adds or
\* modifies it again.
C18_BackOnlyByAddOrModify ==
    \A i \in 1..Len(InWindow) :
    \A p \in Deleting(InWindow[i]) :
        p \in NodeSet(G) => Readding(i, p) # {}

\* no change set of the window after the i-th renames or deletes
LastStructural(i) ==
    \A k \in (i + 1)..Len(InWindow) :
    \A j \in 1..Len(InWindow[k].code_changes) :
        InWindow[k].code_changes[j].change_type \in {"ADD", "MODIFY"}

\* C18: when a change set carries a DELETE for a path, the File node with
\* that key goes with all its edges, those from the change sets of other
\* developers included, and no node is left without an edge; the path is a
\* File node afterwards only if that change set or a later one adds or
\* modifies it again, its edges then going to such change sets only (to all
\* of them when no later change set renames or deletes), or if a later change
\* set renames another file to it.
C18_DeleteRemovesNode ==
    /\ Isolates(G) = {}
    /\ \A i \in 1..Len(InWindow) :
       \A p \in Deleting(InWindow[i]) :
       \A back \in {{InWindow[k].commit_hash : k \in Readding(i, p)}} :
           /\ p \in NodeSet(G) => (back # {} \/ RenamedOnto(i, p))
           /\ (p \in NodeSet(G) /\ ~RenamedOnto(i, p)) =>
                  /\ G.kind[p] = "File"
                  /\ Neighbours(p) \subseteq back
           /\ LastStructural(i) =>
                  /\ p \in NodeSet(G) <=> back # {}
                  /\ p \in NodeSet(G) => Neighbours(p) = back

\* the newest change set deleted the file an older change set of another
\* developer had modified: the file is gone, both change sets are nodes
C18_Witness ==
    /\ Advanced
    /\ Len(InWindow) = 2
    /\ InWindow[1].author # InWindow[2].author
    /\ InWindow[1].code_changes = <<Modify("f1")>>
    /\ InWindow[2].code_changes = <<Delete("f1")>>
    /\ "f1" \notin NodeSet(G)
    /\ {InWindow[1].commit_hash, InWindow[2].commit_hash} \subseteq NodeSet(G)

\* ---------------------------------------------------------------- file counter claims
\* C19: the file counter is the num_files_in_project of the newest change set
\* handed to the graph: of the last change set of the initial window at
\* first, of the last added change set after an advance that adds change
\* sets, and what it was after an advance that adds none and after a failed
\* advance; the File nodes of the graph play no part.
C19_FileCounter ==
    /\ numberOfFiles = InWindow[Len(InWindow)].num_files_in_project
    /\ [][\A added \in {window'[WindowSize]} :
             IF lastIncluded' = lastIncluded + 1 /\ added # <<>>
             THEN numberOfFiles' = added[Len(added)].num_files_in_project
             ELSE numberOfFiles' = numberOfFiles]_vars

\* the window slid to a day without change sets: the counter is still the 0
\* the change set of the day before carried, with a File node in the graph
C19_Witness ==
    /\ Advanced
    /\ window[WindowSize] = <<>>
    /\ InWindow # <<>>
    /\ numberOfFiles = InWindow[Len(InWindow)].num_files_in_project
    /\ numberOfFiles = 0
    /\ NodesOfKind("File") # {}

\* ---------------------------------------------------------------- forward_until claims
\* the object after the step
After ==
    [window |-> window', lastIncluded |-> lastIncluded', noMoreDays |-> noMoreDays',
     G |-> G', numberOfFiles |-> numberOfFiles', cache |-> cache']

\* the objects n successful calls of forward_graph_one_day lead to
RECURSIVE Repeated(_, _, _)
Repeated(sts, data, n) ==
    IF n = 0 THEN sts
    ELSE Repeated(UNION {{o.st : o \in {x \in ForwardedOneDay(st, data) : x.val}} :
                             st \in sts},
                  data, n - 1)

\* the objects a call of forward_graph_one_day that returns False leaves
Refused(sts, data) ==
    UNION {{o.st : o \in {x \in ForwardedOneDay(st, data) : ~x.val}} : st \in sts}

\* the step is a call of op that changed something
Called(op) ==
    /\ ret'.op = op
    /\ ret' # ret \/ lastIncluded' # lastIncluded \/ noMoreDays' # noMoreDays

\* C20: forward_until(target) never moves the window backward; with the last
\* included date at or after the end of the day of target it changes nothing
\* and returns True; otherwise it returns True in a state that repeated
\* successful calls of forward_graph_one_day reach, the last included day
\* being the day of target, or it returns False in the state in which, after
\* such calls, forward_graph_one_day returns False, before the day of target.
\* A step of forward_graph_one_day is one of those calls.
C20_ForwardUntil ==
    [][/\ Called("forward_until") =>
             /\ lastIncluded' >= lastIncluded
             /\ lastIncluded >= ret'.target_date => (ret'.val /\ After = Now)
             /\ lastIncluded < ret'.target_date =>
                    IF ret'.val
                    THEN /\ lastIncluded' = ret'.target_date
                         /\ After \in Repeated({Now}, UntilData,
                                                ret'.target_date - lastIncluded)
                    ELSE /\ lastIncluded' < ret'.target_date
                         /\ After \in Refused(Repeated({Now}, UntilData,
                                                        lastIncluded' - lastIncluded),
                                               UntilData)
       /\ Called("forward_graph_one_day") =>
             After \in {o.st : o \in {x \in ForwardedOneDay(Now, UntilData) :
                                          x.val = ret'.val}}]_vars

\* forward_until slid the window over more than one day up to its target,
\* dropping what the cache held
C20_Witness ==
    /\ ret.op = "forward_until"
    /\ ret.val
    /\ ret.target_date = lastIncluded
    /\ lastIncluded = WindowSize + 2
    /\ NodesOfKind("File") # {}
    /\ cache = EmptyCache

\* ---------------------------------------------------------------- experiment claims
\* C21: the loop that advances the graph until forward_graph_one_day returns
\* False terminates, and when it breaks it has run get_num_iterations() passes:
\* one for every position of the window over the data set, the first included.
C21_DriverTerminates ==
    /\ <>Broke
    /\ [](Broke => /\ noMoreDays
                   /\ locals.step = GetNumIterations(lastIncluded))

\* the loop broke after several passes on a data set that ends early
C21_Witness == Broke /\ locals.step = 2 /\ lastIncluded = WindowSize + 1

\* ---------------------------------------------------------------- developer graph claims
DeveloperGraph == cache[Key("developer_graph")]

\* the walks without a repeated node that one more edge makes of those of P
Longer(P) ==
    {q \in {Append(p, x) : p \in P, x \in NodeSet(G)} :
        /\ HasEdge(q[Len(q) - 1], q[Len(q)])
        /\ \A i \in 1..(Len(q) - 1) : q[i] # q[Len(q)]}

\* the simple paths of at most four edges that join a and b
Joining(a, b) ==
    LET one == Longer({<<a>>})
        two == Longer(one)
        three == Longer(two)
        four == Longer(three)
    IN {p \in one \cup two \cup three \cup four : p[Len(p)] = b}

\* 12 / length, summed over the paths
Reciprocals(P) ==
    LET Of(n) == Cardinality({p \in P : Len(p) - 1 = n}) IN
    12 * Of(1) + 6 * Of(2) + 4 * Of(3) + 3 * Of(4)

\* C22: in the developer graph two developers are joined iff some simple path
\* of at most four edges joins them in the artifact graph; the distance of
\* their edge is 1 / (sum of 1 / length over all these paths), every pair
\* counted once, and the graph has no other edge.
C22_DeveloperGraph ==
    Key("developer_graph") \in DOMAIN cache =>
        /\ \A e \in DOMAIN DeveloperGraph.edata :
               e \subseteq CurrentDevelopers /\ Cardinality(e) = 2
        /\ \A a \in CurrentDevelopers : \A b \in CurrentDevelopers \ {a} :
               \A P \in {Joining(a, b)} :
                   /\ {a, b} \in DOMAIN DeveloperGraph.edata <=> P # {}
                   /\ P # {} =>
                        \A d \in {DeveloperGraph.edata[{a, b}].distance} :
                            d.n * Reciprocals(P) = 12 * d.d

\* two developers joined by several paths beside one that no path joins
C22_Witness ==
    /\ Key("developer_graph") \in DOMAIN cache
    /\ \E a \in CurrentDevelopers : \E b \in CurrentDevelopers \ {a} :
           Cardinality(Joining(a, b)) >= 2
    /\ \E a \in CurrentDevelopers : \E b \in CurrentDevelopers \ {a} :
           Joining(a, b) = {}

\* ---------------------------------------------------------------- leaving developers claims
\* the developers of the graph before the last advance that are gone after it
Left == locals.prev_developers \ CurrentDevelopers

Recorded(dict, day) == IF HasKey(dict, day) THEN Get(dict, day) ELSE {}

\* C23: a pass of find_leaving_developers that advances the window remembers
\* the developers the graph had before the advance; the next pass files those
\* of them that the graph has no more under the date the window has reached
\* less the window size, and files nothing when none is gone. No date is filed
\* twice, and none with nobody.
C23_LeavingRecorded ==
    /\ [](\A i \in 1..Len(locals.date_to_leaving_developers) :
             /\ locals.date_to_leaving_developers[i].v # {}
             /\ \A j \in 1..(i - 1) :
                    locals.date_to_leaving_developers[j].k
                        < locals.date_to_leaving_developers[i].k)
    /\ [][/\ locals'.prev_developers = CurrentDevelopers
          /\ Left # {} =>
                /\ Recorded(locals'.date_to_leaving_developers,
                            lastIncluded - WindowSize) = Left
                /\ Len(locals'.date_to_leaving_developers)
                       = Len(locals.date_to_leaving_developers) + 1
          /\ Left = {} =>
                locals'.date_to_leaving_developers
                    = locals.date_to_leaving_developers]_vars

\* a developer whose only change set was on day 1 is filed under day 1 once the
\* window of two days has reached day 3, and the day after nobody is filed
C23_Witness ==
    /\ lastIncluded = WindowSize + 2
    /\ Keys(locals.date_to_leaving_developers) = <<1>>
    /\ Recorded(locals.date_to_leaving_developers, 1) = {"d1"}
    /\ "d1" \notin CurrentDevelopers

\* ---------------------------------------------------------------- preprocessing claims
Extracted == ret.op = "extract_change_sets"

\* the .java rows of the commit
JavaRows == SelectSeq(locals.rows, LAMBDA r : r.fpath.ext = "java")

Count(s, Test(_)) == Cardinality({i \in 1..Len(s) : Test(s[i])})

Min(a, b) == IF a <= b THEN a ELSE b

NamedAs(fpath, name) == fpath.stem = name[1] /\ fpath.ext = name[2]

\* C24 as stated: a commit that consists of an ADD and a DELETE with equal
\* numbers of added and deleted lines yields the single RENAME from the deleted
\* path to the added path.
C24_EqualCountsFused ==
    Extracted =>
        \A a \in Rows : \A d \in Rows :
            (/\ JavaRows \in {<<a, d>>, <<d, a>>}
             /\ a.ctype = "ADD"
             /\ d.ctype = "DELETE"
             /\ a.num_added = d.num_deleted)
            => locals.code_changes = <<Rename(d.fpath, a.fpath)>>

\* the RENAMEs that the ADDs and DELETEs of the files called name make: those
\* of each number of lines pair off
Fusions(name) ==
    LET Adds(n) == Count(JavaRows, LAMBDA r :
                       r.ctype = "ADD" /\ NamedAs(r.fpath, name) /\ r.num_added = n)
        Deletes(n) == Count(JavaRows, LAMBDA r :
                       r.ctype = "DELETE" /\ NamedAs(r.fpath, name) /\ r.num_deleted = n)
    IN Min(Adds(12), Deletes(12)) + Min(Adds(7), Deletes(7))

\* C24: extract_change_sets fuses an ADD and a DELETE of the same commit into
\* one RENAME (old path the deleted one, new path the added one) when their
\* files have the same name and as many lines were added as deleted; every
\* change is used by at most one RENAME, no such ADD and DELETE are both left
\* as they are, and changes of files with different names are never fused.
C24_SameNameFused ==
    Extracted =>
        /\ \A name \in {<<p.stem, p.ext>> : p \in JavaPaths} :
               /\ Count(locals.code_changes, LAMBDA c :
                         c.change_type = "RENAME" /\ NamedAs(c.file_path, name))
                      = Fusions(name)
               /\ \A ctype \in {"ADD", "DELETE"} :
                      Count(locals.code_changes, LAMBDA c :
                          c.change_type = ctype /\ NamedAs(c.file_path, name))
                      = Count(JavaRows, LAMBDA r :
                            r.ctype = ctype /\ NamedAs(r.fpath, name))
                        - Fusions(name)
        /\ \A i \in 1..Len(locals.code_changes) :
               \A c \in {locals.code_changes[i]} :
                   c.change_type = "RENAME" =>
                       /\ FileName(c.old_file_path) = FileName(c.file_path)
                       /\ \E a \in Range(JavaRows) : \E d \in Range(JavaRows) :
                              /\ a.ctype = "ADD" /\ a.fpath = c.file_path
                              /\ d.ctype = "DELETE" /\ d.fpath = c.old_file_path
                              /\ a.num_added = d.num_deleted
        /\ Len(locals.code_changes)
              + Count(locals.code_changes, LAMBDA c : c.change_type = "RENAME")
              = Len(JavaRows)

\* Old.java is moved from x to y, and New.java is added beside a deletion of
\* as many lines that stays a deletion
C24_Witness ==
    /\ Extracted
    /\ Range(JavaRows) =
          {Row(Path("y", "Old", "java"), "ADD", 12, 0),
           Row(Path("x", "Old", "java"), "DELETE", 0, 12),
           Row(Path("x", "New", "java"), "ADD", 12, 0)}
    /\ Range(locals.code_changes) =
          {Rename(Path("x", "Old", "java"), Path("y", "Old", "java")),
           Add(Path("x", "New", "java"))}

\* ---------------------------------------------------------------- windowing claims
Dates(change_sets) == {change_sets[i].date : i \in 1..Len(change_sets)}

\* C25: a successful forward_one_day moves the last included date on by one
\* day; the change sets it adds are those of the new last included day and the
\* change sets it removes those of the day WindowSize days before it, so that
\* the window always holds the change sets of the WindowSize days that end on
\* the last included date.
C25_OneDayForward ==
    /\ [](/\ Len(window) = WindowSize
          /\ lastIncluded - FirstIncluded + 1 = WindowSize
          /\ \A i \in 1..WindowSize : Dates(window[i]) \subseteq {FirstIncluded + i - 1})
    /\ [][lastIncluded' # lastIncluded =>
             /\ lastIncluded' = lastIncluded + 1
             /\ Dates(window'[WindowSize]) \subseteq {lastIncluded'}
             /\ Dates(window[1]) \subseteq {lastIncluded' - WindowSize}
             /\ \A i \in 1..(WindowSize - 1) : window'[i] = window[i + 1]
             /\ Range(Concat(window')) =
                   (Range(Concat(window)) \ Range(window[1]))
                       \cup Range(window'[WindowSize])]_vars

\* the window has left its first day and taken in the change sets of a new one
C25_Witness ==
    /\ Advanced
    /\ lastIncluded = WindowSize + 1
    /\ window[1] # <<>>
    /\ window[WindowSize] # <<>>

\* ---------------------------------------------------------------- committer claims
\* the change sets of the window that a developer wrote and the graph took in
Authored(dev) ==
    {i \in 1..Len(InWindow) : InWindow[i].author = dev /\ ~ManyFiles(InWindow[i])}

\* the ChangeSet nodes that a commit edge joins to a developer
Committed(dev) ==
    {n \in NodesOfKind("ChangeSet") :
        HasEdge(dev, n) /\ G.edata[{dev, n}].kind = "commit"}

\* C26: get_top_committers maps every current developer, and nobody else, to
\* the number of ChangeSet nodes that a commit edge joins to the developer,
\* which is the number of change sets of the window that the developer wrote
\* and that were not skipped as large; every number is at least 1, and the
\* dictionary is in the order of non-increasing numbers.
C26_TopCommitters ==
    \A top \in {GetTopCommitters(G)} :
        /\ Range(Keys(top)) = CurrentDevelopers
        /\ Len(top) = Cardinality(CurrentDevelopers)
        /\ \A i \in 1..Len(top) :
               /\ top[i].v = Frac(Cardinality(Committed(top[i].k)), 1)
               /\ top[i].v.n = Cardinality(Authored(top[i].k))
               /\ top[i].v.n >= 1
               /\ \A j \in 1..(i - 1) : top[j].v.n >= top[i].v.n

\* the developer the graph lists first has fewer commits than the second, who
\* has two
C26_Witness ==
    /\ Len(GetDevelopers(G)) = 2
    /\ Keys(GetTopCommitters(G)) = <<GetDevelopers(G)[2], GetDevelopers(G)[1]>>
    /\ GetTopCommitters(G)[1].v.n = 2

\* ---------------------------------------------------------------- replacement contract
\* C27: find_replacement returns None if the number of developers other than
\* the given one is less than or equal to 5.
C27_FiveOthersNone ==
    \A dev \in CurrentDevelopers :
        Cardinality(Others(dev)) <= 5 =>
            FindReplacement(cache, G, dev).outcome = "None"

\* ---------------------------------------------------------------- rebuilding claims
\* C28: after any number of advances the graph has the nodes, with their
\* kinds, and the edges, with their kinds and dates, of the graph that
\* _add_change_sets builds from an empty graph and the change sets of the
\* window in chronological order.
C28_SlidingIsRebuilding ==
    \A rebuilt \in {InitializeGraph(InWindow).G} :
        /\ NodeSet(G) = NodeSet(rebuilt)
        /\ G.kind = rebuilt.kind
        /\ G.edata = rebuilt.edata

\* two advances have taken out of the window a change set that renamed or
\* deleted a file, and the window holds a rename or a deletion and a change
\* set skipped as large
C28_Witness ==
    /\ Advanced
    /\ lastIncluded = WindowSize + 2
    /\ \E i \in 1..Len(InWindow) : ManyFiles(InWindow[i])
    /\ \E i \in 1..Len(InWindow) : HasStructural(InWindow[i])
    /\ NodesOfKind("File") # {}

\* ---------------------------------------------------------------- reachability claims
\* the File nodes that a path from dev through no other developer reaches
\* within the limit
FilesWithin(dev) == {f \in Within(dev) : G.kind[f] = "File"}

\* C29 as stated: find_reachable_files(d) returns exactly the File nodes whose
\* cheapest path from d through no other developer is within distance_limit.
C29_CheapestPaths ==
    \A dev \in CurrentDevelopers :
        \A r \in {FindReachableFiles(cache, G, dev)} :
            r.outcome = "ok" /\ Range(r.val) = FilesWithin(dev)

\* the File nodes that an include edge within the limit joins to a ChangeSet
\* node that dev committed
OwnFiles(dev) ==
    {f \in NodesOfKind("File") :
        \E c \in Committed(dev) :
            /\ HasEdge(c, f)
            /\ G.edata[{c, f}].kind = "include"
            /\ EdgeDistance(c, f) <= Limit}

\* C30: find_reachable_files(d) holds every File node that an include edge of
\* a cost within distance_limit joins to a ChangeSet node of developer d.
C30_OwnFilesReached ==
    \A dev \in CurrentDevelopers :
        \A r \in {FindReachableFiles(cache, G, dev)} :
            r.outcome = "ok" /\ OwnFiles(dev) \subseteq Range(r.val)

\* ---------------------------------------------------------------- distance claims
DatedEdges == {e \in DOMAIN G.edata : G.edata[e].date # NoDate}

\* the day of the window on which a date falls, the first day being day 1
DayIndex(date) == date - (lastIncluded - WindowSize)

\* C31: the day index of every dated edge of the graph, counted inclusively
\* from the first included date, lies in 1..WindowSize; the distance of the
\* edge is WindowSize divided by that index, hence defined and at least 1: it
\* is 1 for an edge of the last included day and WindowSize for an edge of the
\* first included day.
C31_DistanceDefined ==
    \A e \in DatedEdges :
        \A date \in {G.edata[e].date} :
            /\ DayIndex(date) \in 1..WindowSize
            /\ CalculateDistance(date) * DayIndex(date) = WindowSize * DistanceScale
            /\ CalculateDistance(date) >= DistanceScale
            /\ date = lastIncluded => CalculateDistance(date) = DistanceScale
            /\ date = FirstIncluded =>
                   CalculateDistance(date) = WindowSize * DistanceScale

\* after two advances the graph has an edge of the first and an edge of the
\* last included day
C31_Witness ==
    /\ Advanced
    /\ lastIncluded = WindowSize + 2
    /\ \E e \in DatedEdges : G.edata[e].date = lastIncluded
    /\ \E e \in DatedEdges : G.edata[e].date = FirstIncluded

\* ---------------------------------------------------------------- large change set claims
\* the change set the graph took in last
Newest == InWindow[Len(InWindow)]

RenamedFrom(cs) ==
    {cs.code_changes[j].old_file_path :
        j \in {k \in 1..Len(cs.code_changes) : cs.code_changes[k].change_type = "RENAME"}}

RenamedTo(cs) ==
    {cs.code_changes[j].file_path :
        j \in {k \in 1..Len(cs.code_changes) : cs.code_changes[k].change_type = "RENAME"}}

AddsAndModifies(cs) ==
    Len(SelectSeq(cs.code_changes, LAMBDA cc : cc.change_type \in {"ADD", "MODIFY"}))

NoneTwice(s) == \A i, j \in 1..Len(s) : s[i] = s[j] => i = j

\* the nodes the search from dev pushes
Pushed(dev) == {Visits(dev)[i].node : i \in 1..Len(Visits(dev))}

\* C33: the list find_reachable_files returns for a developer holds no file
\* twice; so the share get_jacks computes for a developer is the number of
\* distinct files the developer reaches divided by the number of files of the
\* project, and get_file_to_devs lists no file twice and no developer twice
\* for a file.
C33_NoFileTwice ==
    /\ \A dev \in CurrentDevelopers :
           \A r \in {FindReachableFiles(cache, G, dev)} :
               r.outcome = "ok" /\ NoneTwice(r.val)
    /\ \A r \in {GetFileToDevs(cache, G)} :
           /\ r.outcome = "ok"
           /\ NoneTwice(Keys(r.val))
           /\ \A i \in 1..Len(r.val) : NoneTwice(r.val[i].v)
    /\ \A r \in {GetJacks(cache, G, numberOfFiles)} :
           r.outcome = "ok" =>
               \A i \in 1..Len(r.val) :
                   r.val[i].v = Frac(Cardinality(Reached(r.val[i].k)), numberOfFiles)

\* a developer reaches two files, one of them joined to two of the change
\* sets the search passed through, and is a jack
C33_Witness ==
    \E dev \in CurrentDevelopers :
        /\ Cardinality(Reached(dev)) = 2
        /\ \E f \in Reached(dev) : Cardinality(Neighbours(f) \cap Pushed(dev)) >= 2
        /\ HasKey(GetJacks(cache, G, numberOfFiles).val, dev)
        /\ HasKey(GetFileToDevs(cache, G).val, "f1")

\* ---------------------------------------------------------------- frame claims
\* a step that is a call of an accessor
AccessorCalled == lastIncluded' = lastIncluded /\ cache' # cache

\* C34: a call of an accessor changes neither the nodes nor the edges of the
\* graph nor the list get_developers returns; in particular the developers
\* find_replacement was called for are still in that list and are still
\* keys of the dictionary of reachable files the other accessors read.
C34_AccessorsLeaveGraph ==
    [][AccessorCalled =>
          /\ G' = G
          /\ GetDevelopers(G') = GetDevelopers(G)
          /\ \A r \in {GetDevToReachableFiles(cache', G')} :
                 /\ r.outcome = "ok"
                 /\ Keys(r.val) = GetDevelopers(G)
                 /\ Seen(r) = Seen(GetDevToReachableFiles(cache, G))]_vars

\* find_replacement has returned a dictionary for a developer, who is still
\* among the developers of the graph
C34_Witness ==
    \E dev \in Leaving :
        /\ <<dev, "replacements">> \in DOMAIN cache
        /\ dev \in Range(GetDevelopers(G))
        /\ Len(GetDevelopers(G)) > MinOtherDevs
        /\ Key("dev_to_reachable_files") \in DOMAIN cache

\* ---------------------------------------------------------------- memoization claims
\* C35: get_dev_to_rare_files and find_replacement generate their result on
\* the first call only: once a call has stored its result in the cache, the
\* result is held under the key the next call looks up, so the next call
\* returns it without computing it again.
C35_StoredWhereLookedUp ==
    /\ Key("dev_to_rarefiles") \in DOMAIN cache => Key("dev_to_rare_files") \in DOMAIN cache
    /\ \A dev \in Developers \cup Team :
           <<dev, "replacements">> \in DOMAIN cache =>
               <<dev, "replacement">> \in DOMAIN cache

\* ---------------------------------------------------------------- path shape claims
\* a change set of each of the two developers is joined to one file or issue
SharedArtifacts(a, b) ==
    {t \in Neighbours(a) \X (NodesOfKind("File") \cup NodesOfKind("Issue")) \X Neighbours(b) :
        HasEdge(t[1], t[2]) /\ HasEdge(t[2], t[3])}

\* C36: every edge of the artifact graph joins a ChangeSet node to a node of
\* another kind and every ChangeSet node has exactly one Developer neighbour;
\* so every simple path of at most four edges between two developers has
\* exactly four, running over a change set, a file or issue and a change set,
\* two developers are joined in the developer graph iff a change set of each
\* is joined to a common file or issue, and the distance of their edge is 4
\* divided by the number of these paths.
C36_PathsOfFour ==
    /\ \A e \in DOMAIN G.edata :
           Cardinality(e) = 2 /\ Cardinality(e \cap NodesOfKind("ChangeSet")) = 1
    /\ \A c \in NodesOfKind("ChangeSet") :
           Cardinality(Neighbours(c) \cap CurrentDevelopers) = 1
    /\ \A a \in CurrentDevelopers : \A b \in CurrentDevelopers \ {a} :
           \A P \in {Joining(a, b)} :
               /\ P = {<<a, t[1], t[2], t[3], b>> : t \in SharedArtifacts(a, b)}
               /\ Key("developer_graph") \in DOMAIN cache =>
                      /\ {a, b} \in DOMAIN DeveloperGraph.edata
                             <=> SharedArtifacts(a, b) # {}
                      /\ SharedArtifacts(a, b) # {} =>
                             \A d \in {DeveloperGraph.edata[{a, b}].distance} :
                                 d.n * Cardinality(SharedArtifacts(a, b)) = 4 * d.d

\* the developer graph is built, two developers share a file and an issue
\* and are joined by three paths or more, and two developers share nothing
C36_Witness ==
    /\ Key("developer_graph") \in DOMAIN cache
    /\ \E a, b \in CurrentDevelopers :
           /\ a # b
           /\ Cardinality(SharedArtifacts(a, b)) >= 3
           /\ \E t \in SharedArtifacts(a, b) : G.kind[t[2]] = "Issue"
           /\ \E t \in SharedArtifacts(a, b) : G.kind[t[2]] = "File"
    /\ \E a, b \in CurrentDevelopers : a # b /\ SharedArtifacts(a, b) = {}

\* ---------------------------------------------------------------- connector claims
\* the developers joined to dev in the developer graph devG
Adjacent(devG, dev) == {d \in CurrentDevelopers : {dev, d} \in DOMAIN devG.edata}

\* the first k connectors and the developers adjacent to them
Accumulated(devG, connectors, k) ==
    UNION {{connectors[i]} \cup Adjacent(devG, connectors[i]) : i \in 1..k}

\* at least 80% of the Developer nodes of the artifact graph
EnoughDevelopers(devG, connectors, k) ==
    Cardinality(Accumulated(devG, connectors, k)) * 10 >= 8 * Cardinality(CurrentDevelopers)

\* C37: find_last_sig_connector returns the first connector of the sorted
\* dictionary at which the connectors so far, together with the developers
\* adjacent to them in the developer graph, are at least 80% of the Developer
\* nodes of the artifact graph; it returns None when no connector gets that
\* far, as when no developer has a betweenness of score_threshold or more.
C37_LastSigConnector ==
    \A r \in {FindLastSigConnector(cache, G)} :
    \A devG \in {GetDeveloperGraph(cache, G).val} :
    \A connectors \in {Keys(GetConnectors(cache, G).val)} :
        /\ r.outcome \in {"ok", "None"}
        /\ r.outcome = "ok" =>
               \E k \in 1..Len(connectors) :
                   /\ r.val = connectors[k]
                   /\ EnoughDevelopers(devG, connectors, k)
                   /\ \A j \in 1..(k - 1) : ~EnoughDevelopers(devG, connectors, j)
        /\ r.outcome = "None" <=>
               \A k \in 1..Len(connectors) : ~EnoughDevelopers(devG, connectors, k)
        /\ connectors = <<>> => r.outcome = "None"

\* the first connector and its neighbours fall short of 80% of the developers
\* and the second connector is returned
C37_Witness ==
    /\ Key("connectors") \in DOMAIN cache
    /\ \E r \in {FindLastSigConnector(cache, G)} :
       \E devG \in {GetDeveloperGraph(cache, G).val} :
       \E connectors \in {Keys(GetConnectors(cache, G).val)} :
           /\ Len(connectors) >= 2
           /\ ~EnoughDevelopers(devG, connectors, 1)
           /\ r.outcome = "ok"
           /\ r.val = connectors[2]

\* ---------------------------------------------------------------- replacement dictionary claims
\* the files of dev that other reaches too
Shared(dev, other) == Reached(dev) \cap Reached(other)

\* C38: a dictionary find_replacement(dev) returns never holds dev; it holds
\* the other developers of the graph whose share of the files of dev is at
\* least score_threshold, each with that share, so every value is greater
\* than 0 and at most 1 and a developer who shares no file with dev is absent;
\* the dictionary may be empty, which is not the result None.
C38_ReplacementDictionary ==
    \A dev \in CurrentDevelopers :
    \A r \in {FindReplacement(cache, G, dev)} :
        /\ r.outcome \in {"ok", "None"}
        /\ r.outcome = "ok" =>
               /\ Seen(r) # Seen(None(cache))
               /\ dev \notin Range(Keys(r.val))
               /\ \A i \in 1..Len(r.val) :
                      /\ r.val[i].k \in Others(dev)
                      /\ r.val[i].v.d = Cardinality(Reached(dev))
                      /\ r.val[i].v.n = Cardinality(Shared(dev, r.val[i].k))
                      /\ 0 < r.val[i].v.n /\ r.val[i].v.n <= r.val[i].v.d
               /\ \A o \in Others(dev) :
                      /\ Shared(dev, o) = {} => o \notin Range(Keys(r.val))
                      /\ o \in Range(Keys(r.val)) <=>
                             Cardinality(Shared(dev, o)) * ThresholdDen
                                 >= ThresholdNum * Cardinality(Reached(dev))

\* one developer gets an empty dictionary while another gets None
C38_Witness ==
    /\ \E dev \in CurrentDevelopers :
           Seen(FindReplacement(cache, G, dev)) = <<"ok", <<>>>>
    /\ \E dev \in CurrentDevelopers : FindReplacement(cache, G, dev).outcome = "None"


\* ---------------------------------------------------------------- replacements of the experiment
\* a call that returned, be it None
Either(r, Then(_)) == IF r.outcome \notin {"ok", "None"} THEN r ELSE Then(r)

\* {dev: G.find_replacement(dev) for dev in leaving developers}
RECURSIVE FindReplacements(_, _, _, _)
FindReplacements(c, g, devs, replacements) ==
    IF devs = {} THEN Ok(replacements, c)
    ELSE Either(FindReplacement(c, g, CHOOSE dev \in devs : TRUE), LAMBDA r :
             FindReplacements(r.cache, g, devs \ {CHOOSE dev \in devs : TRUE},
                 Append(replacements, Entry(CHOOSE dev \in devs : TRUE, Seen(r)))))

\* a large change set of a developer
Sweep(d) == [author |-> d, code_changes |-> <<Modify("f1"), Modify("f2")>>,
             issues |-> <<>>, num_files_in_project |-> 2]

ExperimentData ==
    [single |-> {Plain("d1", "f1"), Fix("d2", "f2"), Drop("d2", "f1"), Sweep("d1")},
     pairs |-> {<<Fix("d1", "f1"), Plain("d2", "f2")>>},
     triples |-> {}]

\* a pass of find_leaving_developers, which works on a deep copy of the graph
CopyPass(data) == locals.pc = "find_leaving_developers" /\ FindLeavingPass(data)

\* find_leaving_developers returns and the loop starts on the graph itself,
\* which stands where it was constructed
LeavingFound ==
    /\ locals.pc = "find_leaving_developers"
    /\ Broke
    /\ window' = locals.G.window
    /\ lastIncluded' = locals.G.lastIncluded
    /\ noMoreDays' = locals.G.noMoreDays
    /\ G' = locals.G.G
    /\ numberOfFiles' = locals.G.numberOfFiles
    /\ cache' = locals.G.cache
    /\ ret' = Returned("HistoryGraph", TRUE, FALSE)
    /\ locals' = [locals EXCEPT !.pc = "date_to_results"]

\* the replacements of the developers filed under the last included date
StoreResults ==
    /\ locals.pc = "date_to_results"
    /\ \E r \in {FindReplacements(cache, G,
                      Recorded(locals.date_to_leaving_developers, lastIncluded), <<>>)} :
           /\ cache' = r.cache
           /\ locals' =
                  IF r.outcome = "ok"
                  THEN [locals EXCEPT !.pc = "forward_graph_one_day",
                                      !.date_to_results = Append(@, Entry(lastIncluded, r.val))]
                  ELSE [locals EXCEPT !.pc = r.outcome]
    /\ UNCHANGED <<window, lastIncluded, noMoreDays, G, numberOfFiles, ret>>

\* the graph itself goes through the days its copy has been through
ForwardAgain(data) ==
    /\ locals.pc = "forward_graph_one_day"
    /\ \/ /\ lastIncluded - WindowSize + 1 = Len(locals.dataset)
          /\ SlidingFails
          /\ locals' = [locals EXCEPT !.pc = "break"]
       \/ /\ lastIncluded - WindowSize + 1 < Len(locals.dataset)
          /\ Slide(data)
          /\ window'[WindowSize] = locals.dataset[lastIncluded - WindowSize + 2]
          /\ locals' = [locals EXCEPT !.pc = "date_to_results"]

InitExperiment ==
    /\ Construct(ExperimentData)
    /\ locals = [pc |-> "find_leaving_developers", G |-> Now,
                 prev_developers |-> {}, date_to_leaving_developers |-> <<>>,
                 dataset |-> <<>>, date_to_results |-> <<>>]

NextExperiment ==
    \/ CopyPass(ExperimentData)
    \/ LeavingFound
    \/ StoreResults
    \/ ForwardAgain(ExperimentData)

SpecExperiment == InitExperiment /\ [][NextExperiment]_vars

\* ---------------------------------------------------------------- experiment replacement claims
\* the loop of run_experiment is at work on the graph itself
Experimenting == locals.pc \in {"date_to_results", "forward_graph_one_day", "break"}

\* C39: the developers find_leaving_developers files under a date that the
\* window of the experiment reaches are Developer nodes of the graph when that
\* date is its last included date; so the call find_replacement(dev) that
\* run_experiment makes on that date never fails the assertion that the
\* developer exists, and a result is stored for every one of them.
C39_LeaversAreDevelopers ==
    /\ locals.pc # "AssertionError"
    /\ Experimenting =>
           Recorded(locals.date_to_leaving_developers, lastIncluded) \subseteq CurrentDevelopers
    /\ \A i \in 1..Len(locals.date_to_results) :
           \A e \in {locals.date_to_results[i]} :
               /\ e.k >= WindowSize
               /\ Range(Keys(e.v)) = Recorded(locals.date_to_leaving_developers, e.k)
               /\ \A j \in 1..Len(e.v) : e.v[j].v[1] \in {"ok", "None"}

\* the experiment has asked for the replacement of a developer on the last
\* day of the developer, days before the end of the data set
C39_Witness ==
    /\ locals.pc = "break"
    /\ \E i \in 1..Len(locals.date_to_results) :
           /\ locals.date_to_results[i].v # <<>>
           /\ locals.date_to_results[i].k = lastIncluded - WindowSize

====
